---- MODULE Spec2Model ----
(***************************************************************************)
(* Case Organizer, static/js/main.js: the client-side case-browser         *)
(* runtime.  Five components are modelled, each with its own next-state    *)
(* relations over the shared page state:                                   *)
(*   SpecTrunc   smartTruncate (pure function, applied once and twice)     *)
(*   SpecYear    initYearDropdown (the infinite year picker)               *)
(*   SpecDir     renderResults / showDirLevel / dir-search / delete rows,  *)
(*               and its parts SpecDelete, SpecConfirm, SpecRender,        *)
(*               SpecNav, SpecBrowse                                       *)
(*   SpecNote    bindGlobalNotesModalHandlers (the notes modal), and       *)
(*               SpecEdit with the case select behind it                   *)
(*   SpecLookup  manageCaseForm year / month / case lookup, and SpecName   *)
(*               with the name search                                      *)
(* Strings whose content matters (file names, paths, note text) are        *)
(* sequences of one-character strings.                                     *)
(***************************************************************************)
EXTENDS Integers, Sequences, FiniteSets, Bags, TLC

VARIABLES
  \* ---- smartTruncate harness
  tPhase, tName, tMax, tOut, tOut2,
  \* ---- year picker (closure state of initYearDropdown + its DOM)
  from, to, selected, hiddenValue, panelHidden, panelReady, items, marked,
  panelScrollTop, yEvents,
  \* ---- results surface, directory navigator, row deletion
  isAdmin, results, scrollTop, lastRenderedResults, dirSearchState,
  dirBtnPressed, dirFetches, searches, confirms, deletes,
  hPreResults, hPreScroll,
  \* ---- the paths of the records deleted since a new list was rendered
  hDeleted,
  \* ---- notes modal (closure state of bindGlobalNotesModalHandlers + its DOM)
  modalHidden, modalState, modalIntent, rawContent, originalContent,
  noteContext, editorValue, saveDisabled, saves,
  \* ---- manage-case lookup (closure state of manageCaseForm + its DOM)
  formOpen, yearOpts, yearVal, monthOpts, monthVal, monthDisabled,
  caseOpts, caseVal, caseDisabled, invoiceDisabled, noteVisible, noteWired,
  loads, navigated, hFault, hRecomputed,
  \* ---- window.alert calls of the latest handler; the name of that handler
  \*      when it answers a confirmation or a delete request, or belongs to
  \*      the notes modal or the lookup
  alerts, hStep,
  \* ---- the callbacks (onSaved, __refreshNoteButton) the latest handler called
  hCalls,
  \* ---- the arguments of the direct calls of renderResults made so far
  rCalls

truncVars == <<tPhase, tName, tMax, tOut, tOut2>>
yearVars  == <<from, to, selected, hiddenValue, panelHidden, panelReady,
               items, marked, panelScrollTop, yEvents>>
dirVars   == <<isAdmin, results, scrollTop, lastRenderedResults, dirSearchState,
               dirBtnPressed, dirFetches, searches, confirms, deletes,
               hPreResults, hPreScroll, hDeleted>>
noteVars  == <<modalHidden, modalState, modalIntent, rawContent, originalContent,
               noteContext, editorValue, saveDisabled, saves>>
lookupVars == <<formOpen, yearOpts, yearVal, monthOpts, monthVal, monthDisabled,
                caseOpts, caseVal, caseDisabled, invoiceDisabled, noteVisible,
                noteWired, loads, navigated, hFault, hRecomputed>>
vars == <<truncVars, yearVars, dirVars, noteVars, lookupVars, alerts, hStep, hCalls, rCalls>>

Min(a, b) == IF a < b THEN a ELSE b
Max(a, b) == IF a > b THEN a ELSE b

(***************************************************************************)
(* JavaScript string primitives used by the code.                          *)
(***************************************************************************)
\* String.prototype.slice(start, end): negative indices count from the end,
\* both are clamped to [0, length], empty when start >= end.
JsSlice(s, start, end) ==
  LET len == Len(s)
      b   == IF start < 0 THEN Max(len + start, 0) ELSE Min(start, len)
      e   == IF end < 0 THEN Max(len + end, 0) ELSE Min(end, len)
  IN  IF b >= e THEN << >> ELSE SubSeq(s, b + 1, e)

\* slice(start) with the end omitted
JsSliceFrom(s, start) == JsSlice(s, start, Len(s))

\* String.prototype.lastIndexOf(ch): 0-based, -1 when absent
LastIndexOf(s, ch) ==
  IF \E i \in 1..Len(s) : s[i] = ch
  THEN (CHOOSE i \in 1..Len(s) :
          s[i] = ch /\ \A j \in (i + 1)..Len(s) : s[j] # ch) - 1
  ELSE -1

\* Math.ceil(k / 2) and Math.floor(k / 2) on integers of either sign
CeilHalf(k)  == -((-k) \div 2)
FloorHalf(k) == k \div 2

Ellipsis == <<".", ".", ".">>

(***************************************************************************)
(* smartTruncate(filename, maxLen)                          main.js:402    *)
(***************************************************************************)
smartTruncate(filename, maxLen) ==
  IF filename = << >> \/ Len(filename) <= maxLen THEN filename
  ELSE
    LET extIndex == LastIndexOf(filename, ".")
        ext      == IF extIndex # -1 THEN JsSliceFrom(filename, extIndex) ELSE << >>
        base     == IF extIndex # -1 THEN JsSlice(filename, 0, extIndex) ELSE filename
        keep     == maxLen - Len(ext) - 3
        startLen == CeilHalf(keep)
        endLen   == FloorHalf(keep)
    IN  JsSlice(base, 0, startLen) \o Ellipsis \o JsSliceFrom(base, -endLen) \o ext

\* the extension the claim speaks of: the suffix from the last '.'
ExtOf(filename) ==
  IF LastIndexOf(filename, ".") # -1
  THEN JsSliceFrom(filename, LastIndexOf(filename, "."))
  ELSE << >>

EndsWith(s, suffix) ==
  /\ Len(suffix) <= Len(s)
  /\ SubSeq(s, Len(s) - Len(suffix) + 1, Len(s)) = suffix

\* ---- bounded inputs of the truncation harness
MaxNameLen == 6
MinMaxLen  == 4
MaxMaxLen  == 7
NameChars  == {"a", "b", "."}
RECURSIVE StringsUpTo(_)
StringsUpTo(n) ==
  IF n = 0 THEN {<< >>}
  ELSE LET shorter == StringsUpTo(n - 1)
       IN  shorter \cup {Append(s, c) : s \in {x \in shorter : Len(x) = n - 1}, c \in NameChars}
FileNames == StringsUpTo(MaxNameLen)

TruncInit ==
  /\ tPhase = "idle" /\ tName = << >> /\ tMax = 0 /\ tOut = << >> /\ tOut2 = << >>

\* a caller picks a file name and a maximum length
TruncChoose ==
  /\ tPhase = "idle"
  /\ \E n \in FileNames, m \in MinMaxLen..MaxMaxLen :
       /\ tName' = n /\ tMax' = m
  /\ tPhase' = "chosen"
  /\ UNCHANGED <<tOut, tOut2>>

\* name.textContent = smartTruncate(rec.file, maxLen)
TruncApply ==
  /\ tPhase = "chosen"
  /\ tOut' = smartTruncate(tName, tMax)
  /\ tPhase' = "once"
  /\ UNCHANGED <<tName, tMax, tOut2>>

\* the displayed name is truncated again at the same maximum
TruncApplyAgain ==
  /\ tPhase = "once"
  /\ tOut2' = smartTruncate(tOut, tMax)
  /\ tPhase' = "twice"
  /\ UNCHANGED <<tName, tMax, tOut>>

(***************************************************************************)
(* initYearDropdown(wrapperId, hiddenInputId, startYear)    main.js:160    *)
(***************************************************************************)
CHUNK     == 80
THRESHOLD == 40
itemHeight == 32
StartYear == 2025
HomeYear  == 9999
EndYear   == 1
EdgeMargin == 5
PageStep  == 10
ViewMargin == 4
MaxYearEvents == 4
\* the height of the panel's viewport in px (set by the style sheet)
PanelClientHeight == 240

Keys == {"ArrowUp", "ArrowDown", "PageUp", "PageDown", "Home", "End", "Enter", "Escape"}

\* the rendered .yd-item nodes are kept as the sequence of fragments that
\* were inserted, each a run lo..hi of consecutive years
InItems(its, y) == \E i \in 1..Len(its) : its[i][1] <= y /\ y <= its[i][2]

\* faulty variant: the loop starts one year late
Fragment_SkipsFirst(lo, hi) == IF lo < hi THEN << <<lo + 1, hi>> >> ELSE << >>

\* a fragment built by one of the for-loops: years lo..hi, nothing when lo > hi
Fragment(lo, hi) == IF lo <= hi THEN << <<lo, hi>> >> ELSE << >>

\* the number of item nodes in the panel
RECURSIVE NodeCount(_)
NodeCount(its) ==
  IF its = << >> THEN 0
  ELSE (Head(its)[2] - Head(its)[1] + 1) + NodeCount(Tail(its))

\* panel.scrollHeight - panel.clientHeight: the largest scrollTop the panel takes
MaxPanelScroll(its) == Max(0, NodeCount(its) * itemHeight - PanelClientHeight)

\* an assignment to panel.scrollTop is clamped to the scrollable range
ClampPanel(s, its) == Max(0, Min(s, MaxPanelScroll(its)))

\* the 'selected' class after a fragment lo..hi was built while sel is selected
MarkNew(mk, lo, hi, sel) == IF lo <= sel /\ sel <= hi THEN mk \cup {sel} ELSE mk

YearInit ==
  /\ from = StartYear - CHUNK
  /\ to = StartYear + CHUNK
  /\ selected = StartYear
  /\ hiddenValue = StartYear
  /\ panelHidden = TRUE
  /\ panelReady = FALSE
  /\ items = << >>
  /\ marked = {}
  /\ panelScrollTop = 0
  /\ yEvents = 0

\* setYear(y): the highlight left on the rendered items
SetYearMarked(its, y) == IF InItems(its, y) THEN {y} ELSE {}

YearTick == /\ yEvents < MaxYearEvents /\ yEvents' = yEvents + 1

\* render(true): the scrollTop that puts the anchor in the middle
InitialScroll(its) ==
  ClampPanel(Max(0, (StartYear - from) * itemHeight
                    - (PanelClientHeight \div 2) + (itemHeight \div 2)), its)

\* trigger click while the panel is hidden: open(), first open renders from..to.
\* A panel shown again keeps its scroll offset or starts at the top, as the
\* browser has it.
YearOpen ==
  /\ YearTick
  /\ panelHidden
  /\ panelHidden' = FALSE
  /\ IF ~panelReady
     THEN /\ items' = Fragment(from, to)
          /\ marked' = MarkNew({}, from, to, selected)
          /\ panelReady' = TRUE
          /\ panelScrollTop' = InitialScroll(Fragment(from, to))
     ELSE /\ panelScrollTop' \in {panelScrollTop, 0}
          /\ UNCHANGED <<items, marked, panelReady>>
  /\ UNCHANGED <<from, to, selected, hiddenValue>>

\* trigger click while open, or a click outside the control: close()
YearClose ==
  /\ YearTick
  /\ ~panelHidden
  /\ panelHidden' = TRUE
  /\ UNCHANGED <<from, to, selected, hiddenValue, panelReady, items, marked,
                 panelScrollTop>>

\* the scroll handler's two tests, for a scroll event that finds scrollTop = s
NearTop(s) == s <= THRESHOLD
NearBottom(s, its) == MaxPanelScroll(its) - s <= THRESHOLD

\* faulty variant: the offset moves by one item only
ScrollCompensation_OneItem == itemHeight

\* panel.scrollTop += CHUNK * itemHeight
ScrollCompensation == CHUNK * itemHeight

\* the offsets at which a scroll event can find the panel: where the user
\* scrolled to, or where the handlers left it
ScrollStops ==
  { ClampPanel(s, items) :
      s \in {0, THRESHOLD, THRESHOLD + 1,
             MaxPanelScroll(items) - THRESHOLD - 1,
             MaxPanelScroll(items) - THRESHOLD,
             MaxPanelScroll(items), panelScrollTop} }

\* panel scroll event that finds the panel at scrollTop = s
YearScrollAt(s) ==
  /\ YearTick
  /\ ~panelHidden
  /\ from' = IF NearTop(s) THEN from - CHUNK ELSE from
  /\ to' = IF NearBottom(s, items) THEN to + CHUNK ELSE to
  /\ items' = (IF NearTop(s) THEN Fragment(from - CHUNK, from - 1) ELSE << >>)
              \o items
              \o (IF NearBottom(s, items) THEN Fragment(to + 1, to + CHUNK) ELSE << >>)
  /\ marked' = LET m1 == IF NearTop(s)
                         THEN MarkNew(marked, from - CHUNK, from - 1, selected)
                         ELSE marked
               IN  IF NearBottom(s, items) THEN MarkNew(m1, to + 1, to + CHUNK, selected)
                   ELSE m1
  /\ panelScrollTop' =
       IF NearTop(s)
       THEN ClampPanel(s + ScrollCompensation,
                       Fragment(from - CHUNK, from - 1) \o items)
       ELSE s
  /\ UNCHANGED <<selected, hiddenValue, panelHidden, panelReady>>

YearScroll == \E s \in ScrollStops : YearScrollAt(s)

\* click on a rendered item: setYear(y); close()
YearClickItem ==
  /\ YearTick
  /\ ~panelHidden
  /\ \E y \in {from, to, selected - 1, selected + 1} :
       /\ InItems(items, y)
       /\ selected' = y
       /\ hiddenValue' = y
       /\ marked' = SetYearMarked(items, y)
  /\ panelHidden' = TRUE
  /\ UNCHANGED <<from, to, panelReady, items, panelScrollTop>>

\* faulty variant: the arrow keys move by a page
KeyTarget_ArrowsPage(key, cur) ==
  CASE key \in {"ArrowUp", "PageUp"}     -> cur + PageStep
    [] key \in {"ArrowDown", "PageDown"} -> cur - PageStep
    [] key = "Home"      -> HomeYear
    [] key = "End"       -> EndYear
    [] OTHER             -> cur

\* the value a key moves to, from cur = parseInt(hidden.value)
KeyTarget(key, cur) ==
  CASE key = "ArrowUp"   -> cur + 1
    [] key = "ArrowDown" -> cur - 1
    [] key = "PageUp"    -> cur + PageStep
    [] key = "PageDown"  -> cur - PageStep
    [] key = "Home"      -> HomeYear
    [] key = "End"       -> EndYear
    [] OTHER             -> cur

\* faulty variant: the lower edge test with the chunk added to the margin
NeedsPrepend_Wide(next, lo) == next < lo + CHUNK + EdgeMargin

\* keydown: the tests that extend the window
NeedsPrepend(next, lo) == next < lo + EdgeMargin
NeedsAppend(next, hi)  == next > hi - EdgeMargin

\* keydown: 'scroll selected into view', for the item of year next in the
\* items its (first year lo) with the panel at scrollTop st
ScrollIntoView(next, lo, its, st) ==
  IF ~InItems(its, next) THEN st
  ELSE LET top    == (next - lo) * itemHeight - st
           bottom == top + itemHeight
           s1     == IF top < ViewMargin
                     THEN ClampPanel(st - (ViewMargin - top), its) ELSE st
       IN  IF bottom > PanelClientHeight - ViewMargin
           THEN ClampPanel(s1 + (bottom - (PanelClientHeight - ViewMargin)), its)
           ELSE s1

\* keydown of `key` on the focused (open) panel
YearKey(key) ==
  /\ YearTick
  /\ ~panelHidden
  /\ IF key \in {"Enter", "Escape"}
     THEN /\ panelHidden' = TRUE
          /\ UNCHANGED <<from, to, selected, hiddenValue, panelReady, items, marked,
                         panelScrollTop>>
     ELSE LET next == KeyTarget(key, hiddenValue)
              mk0  == SetYearMarked(items, next)
          IN  /\ selected' = next
              /\ hiddenValue' = next
              /\ IF NeedsPrepend(next, from)
                 THEN /\ from' = next - CHUNK
                      /\ items' = Fragment(next - CHUNK, from - 1) \o items
                      /\ marked' = MarkNew(mk0, next - CHUNK, from - 1, next)
                      /\ to' = to
                      /\ panelScrollTop' =
                           ScrollIntoView(next, next - CHUNK, items',
                             ClampPanel(panelScrollTop
                                        + (from - (next - CHUNK)) * itemHeight, items'))
                 ELSE IF NeedsAppend(next, to)
                 THEN /\ to' = next + CHUNK
                      /\ items' = items \o Fragment(to + 1, next + CHUNK)
                      /\ marked' = MarkNew(mk0, to + 1, next + CHUNK, next)
                      /\ from' = from
                      /\ panelScrollTop' = ScrollIntoView(next, from, items', panelScrollTop)
                 ELSE /\ marked' = mk0
                      /\ panelScrollTop' = ScrollIntoView(next, from, items, panelScrollTop)
                      /\ UNCHANGED <<from, to, items>>
              /\ UNCHANGED <<panelHidden, panelReady>>

YearKeydown == \E key \in Keys : YearKey(key)

\* wheel over the trigger while the panel is hidden: setYear(selected +- 1)
YearWheel ==
  /\ YearTick
  /\ panelHidden
  /\ \E ctrlKey \in BOOLEAN, delta \in {1, -1} :
       IF ctrlKey
       THEN UNCHANGED <<selected, hiddenValue, marked>>
       ELSE /\ selected' = selected + delta
            /\ hiddenValue' = selected + delta
            /\ marked' = SetYearMarked(items, selected + delta)
  /\ UNCHANGED <<from, to, panelHidden, panelReady, items, panelScrollTop>>


(***************************************************************************)
(* Results renderer and directory navigator                 main.js:367    *)
(***************************************************************************)
MaxDirFetches == 2
MaxSearches   == 1
MaxDeletes    == 1
ViewRows    == 1

\* ---- in-flight requests are bags of the closures that await them
RECURSIVE BagSum(_, _)
BagSum(S, B) ==
  IF S = {} THEN 0
  ELSE LET x == CHOOSE y \in S : TRUE IN B[x] + BagSum(S \ {x}, B)

\* the bag with every element e replaced by F(e)
MapBag(B, F(_)) ==
  [e \in {F(x) : x \in BagToSet(B)} |->
     BagSum({x \in BagToSet(B) : F(x) = e}, B)]

\* every pending save has seen a user action on the modal since its click
Touch(B) == MapBag(B, LAMBDA e : [e EXCEPT !.touched = TRUE])
\* marks the pending requests as issued by an earlier session of the modal
Reopen(B) == MapBag(B, LAMBDA e : [e EXCEPT !.reopened = TRUE])

BagAdd(B, e)    == B (+) SetToBag({e})
BagRemove(B, e) == B (-) SetToBag({e})

\* ---- the /api/dir-tree collaborator: a fixed small tree
\*        ""  -> dirs a         "a" -> dirs b, file a/f       "a/b" -> empty
Slash == <<"/">>
DirA  == <<"a">>
DirB  == <<"b">>
FileF == [name |-> <<"f">>, path |-> <<"a", "/", "f">>]
Listing(path) ==
  CASE path = << >>            -> [dirs |-> <<DirA>>, files |-> << >>]
    [] path = DirA             -> [dirs |-> <<DirB>>, files |-> <<FileF>>]
    [] OTHER                   -> [dirs |-> << >>, files |-> << >>]

\* ---- the /search collaborator: the result lists it may return
RecX == [file |-> <<"x">>, path |-> <<"x">>]
RecY == [file |-> <<"y">>, path |-> <<"y">>]
ResultLists == {<< >>, <<RecX>>, <<RecX, RecY>>}

\* ---- rows of the #results host.  rel is the relPath a folder / up row's
\* click handler closed over; name is a record's path or a folder's name.
Row(kind, name, rel) == [kind |-> kind, name |-> name, rel |-> rel]
MsgRow(kind)  == Row(kind, << >>, << >>)
DefaultRows   == <<MsgRow("default")>>      \* 'Use the search tools above ...'
LoadingRows   == <<MsgRow("loading")>>      \* 'Loading directory tree...'
ErrorRows     == <<MsgRow("error")>>        \* 'Error: ...'

\* buildResultItem(rec): the row is keyed by rec.path
buildResultItem(rec) == Row("rec", rec.path, << >>)

MaxScrollOf(rows) == Max(0, Len(rows) - ViewRows)
\* the browser keeps scrollTop within the scrollable range of the content
Clamp(s, rows)    == Min(s, MaxScrollOf(rows))

\* cloneResults(list): null for a non-array, else a copy of the records
\* (cloneResults_EmptyIsNull: faulty variant, an empty array is not kept)
NullList == [isNull |-> TRUE, list |-> << >>]
ArrayOf(list) == [isNull |-> FALSE, list |-> list]
cloneResults_EmptyIsNull(v) ==
  IF v.isNull \/ Len(v.list) = 0 THEN NullList ELSE ArrayOf(v.list)
cloneResults(v) == IF v.isNull THEN NullList ELSE ArrayOf([i \in 1..Len(v.list) |-> v.list[i]])

\* relPath.split('/')
RECURSIVE Split(_)
Split(s) ==
  IF \A i \in 1..Len(s) : s[i] # "/" THEN <<s>>
  ELSE LET k == CHOOSE i \in 1..Len(s) :
                  s[i] = "/" /\ \A j \in 1..(i - 1) : s[j] # "/"
       IN  <<SubSeq(s, 1, k - 1)>> \o Split(SubSeq(s, k + 1, Len(s)))

\* parts.join('/')
RECURSIVE Join(_)
Join(parts) ==
  IF Len(parts) = 0 THEN << >>
  ELSE IF Len(parts) = 1 THEN parts[1]
  ELSE parts[1] \o Slash \o Join(Tail(parts))

\* the 'up' row: parts = relPath.split('/'); parts.pop(); parts.join('/')
ParentPath(relPath) ==
  LET parts == Split(relPath) IN Join(SubSeq(parts, 1, Len(parts) - 1))

\* faulty variant: the slash is put in even for the root
ChildPath_AlwaysSlash(relPath, dir) == relPath \o Slash \o dir

\* a folder row: relPath ? `${relPath}/${dir}` : dir
ChildPath(relPath, dir) == IF relPath # << >> THEN relPath \o Slash \o dir ELSE dir

DirStateOff == [active |-> FALSE, previousScroll |-> 0, currentPath |-> << >>]

DirInit ==
  /\ isAdmin \in BOOLEAN
  /\ results = DefaultRows
  /\ scrollTop = 0
  /\ lastRenderedResults = NullList
  /\ dirSearchState = DirStateOff
  /\ dirBtnPressed = FALSE
  /\ dirFetches = EmptyBag
  /\ searches = 0
  /\ confirms = EmptyBag
  /\ deletes = EmptyBag
  /\ hPreResults = DefaultRows
  /\ hPreScroll = 0
  /\ hDeleted = {}
  /\ alerts = << >>
  /\ hStep = ""
  /\ hCalls = << >>
  /\ rCalls = << >>

\* replacing the host's children detaches every row a pending delete holds
Detach(B) == MapBag(B, LAMBDA e : [e EXCEPT !.attached = FALSE])

\* faulty variant: the placeholder stays ahead of the records
RenderedRows_KeepsPlaceholder(list) ==
  <<MsgRow("noresults")>> \o [i \in 1..Len(list) |-> buildResultItem(list[i])]

\* the rows renderResults(list) leaves in the host
RenderedRows(list) ==
  IF Len(list) = 0 THEN <<MsgRow("noresults")>>
  ELSE [i \in 1..Len(list) |-> buildResultItem(list[i])]

\* the same for an argument that may be null: `!list || !list.length`
RenderedRowsOf(v) == IF v.isNull THEN <<MsgRow("noresults")>> ELSE RenderedRows(v.list)

\* faulty variant: renderResults clears the flag and keeps the path
RenderDirState_KeepsPath(ds) == [ds EXCEPT !.active = FALSE, !.previousScroll = 0]

\* renderResults(list): the directory state it leaves
RenderDirState(ds) == IF ds.active THEN DirStateOff ELSE ds

\* renderResults(list)                                       main.js:488
RenderResults(v) ==
  /\ dirSearchState' = RenderDirState(dirSearchState)
  /\ dirBtnPressed' = IF dirSearchState.active THEN FALSE ELSE dirBtnPressed
  /\ lastRenderedResults' = cloneResults(v)
  /\ results' = RenderedRowsOf(v)
  /\ confirms' = Detach(confirms)
  /\ deletes' = Detach(deletes)
  /\ hDeleted' = {}
  /\ dirFetches' = IF dirSearchState.active
                   THEN MapBag(dirFetches, LAMBDA e : [e EXCEPT !.rendered = TRUE])
                   ELSE dirFetches

\* the arguments a direct call passes: null, or one of the result lists
MaxRenders == 4
RenderInputs == {NullList} \cup {ArrayOf(list) : list \in ResultLists}

\* a direct call renderResults(v)
RenderCall(v) ==
  /\ Len(rCalls) < MaxRenders
  /\ rCalls' = Append(rCalls, v)
  /\ RenderResults(v)
  /\ scrollTop' = Clamp(scrollTop, RenderedRowsOf(v))
  /\ UNCHANGED <<isAdmin, searches, hPreResults, hPreScroll>>
  /\ alerts' = << >>
  /\ hStep' = ""
  /\ hCalls' = << >>

\* showDirLevel(relPath) up to its await: the state and the request it leaves
\* (the request remembers whether the user has left directory mode since,
\* whether renderResults has ended directory mode since, and the currentPath
\* showDirLevel found)
ShowDirLevelState(ds, relPath) ==
  IF ~ds.active THEN ds ELSE [ds EXCEPT !.currentPath = relPath]
ShowDirLevelFetches(ds, fetches, relPath) ==
  IF ~ds.active THEN fetches
  ELSE BagAdd(fetches, [path |-> relPath, exited |-> FALSE, rendered |-> FALSE,
                         hPrevPath |-> ds.currentPath])

\* runBasicSearch / runAdvancedSearch up to the await of fetch
SearchClick ==
  /\ searches < MaxSearches
  /\ searches' = searches + 1
  /\ UNCHANGED <<isAdmin, results, scrollTop, lastRenderedResults, dirSearchState,
                 dirBtnPressed, dirFetches, confirms, deletes,
                 hPreResults, hPreScroll, hDeleted>>
  /\ alerts' = << >>
  /\ hStep' = ""
  /\ hCalls' = << >>

\* the bodies /search answers with: one that does not parse as JSON, or an
\* object whose results are one of the lists (empty too for an error object
\* without results)
SearchBodies ==
  {[parses |-> FALSE, results |-> << >>]}
    \cup {[parses |-> TRUE, results |-> list] : list \in ResultLists}

\* r.json().catch(() => ({results: []})) and data.results || []
ResultsOfBody(body) == IF body.parses THEN body.results ELSE << >>

\* the fetch of a search resolves with status ok (2xx) or not and a body:
\* the status is not looked at, the list read from the body is rendered
SearchAnswer(ok, body) ==
  /\ searches > 0
  /\ searches' = searches - 1
  /\ RenderResults(ArrayOf(ResultsOfBody(body)))
  /\ scrollTop' = Clamp(scrollTop, RenderedRows(ResultsOfBody(body)))
  /\ UNCHANGED <<isAdmin, hPreResults, hPreScroll>>
  /\ alerts' = << >>
  /\ hStep' = ""
  /\ hCalls' = << >>

\* the search response
SearchResponse == \E ok \in BOOLEAN, body \in SearchBodies : SearchAnswer(ok, body)

\* fetch rejects: the promise of runBasicSearch rejects, nothing is rendered
SearchReject ==
  /\ searches > 0
  /\ searches' = searches - 1
  /\ UNCHANGED <<isAdmin, results, scrollTop, lastRenderedResults, dirSearchState,
                 dirBtnPressed, dirFetches, confirms, deletes,
                 hPreResults, hPreScroll, hDeleted>>
  /\ alerts' = << >>
  /\ hStep' = ""
  /\ hCalls' = << >>

\* the user scrolls the results host
UserScroll ==
  /\ \E s \in 0..MaxScrollOf(results) :
       /\ s # scrollTop
       /\ scrollTop' = s
  /\ UNCHANGED <<isAdmin, results, lastRenderedResults, dirSearchState,
                 dirBtnPressed, dirFetches, searches, confirms, deletes,
                 hPreResults, hPreScroll, hDeleted>>
  /\ alerts' = << >>
  /\ hStep' = ""
  /\ hCalls' = << >>

\* #dir-search click while inactive: enter directory mode      main.js:2019
DirEnter ==
  /\ ~dirSearchState.active
  /\ BagCardinality(dirFetches) < MaxDirFetches
  /\ LET entered == [active |-> TRUE, previousScroll |-> scrollTop,
                     currentPath |-> << >>]
     IN  /\ dirSearchState' = ShowDirLevelState(entered, << >>)
         /\ dirFetches' = ShowDirLevelFetches(entered, dirFetches, << >>)
  /\ dirBtnPressed' = TRUE
  /\ results' = LoadingRows
  /\ scrollTop' = Clamp(scrollTop, LoadingRows)
  /\ confirms' = Detach(confirms)
  /\ deletes' = Detach(deletes)
  /\ hPreResults' = results
  /\ hPreScroll' = scrollTop
  /\ UNCHANGED <<isAdmin, lastRenderedResults, searches, hDeleted>>
  /\ alerts' = << >>
  /\ hStep' = ""
  /\ hCalls' = << >>

\* the rows and scroll offset the exit branch leaves
ExitRows(snapshot) ==
  IF ~snapshot.isNull THEN RenderedRows(snapshot.list) ELSE DefaultRows
ExitScroll(snapshot, ds, st) ==
  IF ~snapshot.isNull
  THEN Clamp(ds.previousScroll, RenderedRows(snapshot.list))
  ELSE Clamp(st, DefaultRows)

\* #dir-search click while active: exit directory mode         main.js:2028
DirExit ==
  /\ dirSearchState.active
  /\ LET snapshot == cloneResults(lastRenderedResults)
     IN  /\ results' = ExitRows(snapshot)
         /\ scrollTop' = ExitScroll(snapshot, dirSearchState, scrollTop)
         /\ lastRenderedResults' = snapshot
  /\ dirSearchState' = DirStateOff
  /\ dirBtnPressed' = FALSE
  /\ dirFetches' = MapBag(dirFetches, LAMBDA e : [e EXCEPT !.exited = TRUE])
  /\ confirms' = Detach(confirms)
  /\ deletes' = Detach(deletes)
  /\ hPreResults' = DefaultRows
  /\ hPreScroll' = 0
  /\ UNCHANGED <<isAdmin, searches, hDeleted>>
  /\ alerts' = << >>
  /\ hStep' = ""
  /\ hCalls' = << >>

\* faulty variant: the '(empty)' row is shown whenever there are no files
ListingRows_EmptyWithoutFiles(relPath, data) ==
  (IF relPath # << >> THEN <<Row("up", << >>, relPath)>> ELSE << >>)
  \o [i \in 1..Len(data.dirs) |-> Row("folder", data.dirs[i], relPath)]
  \o [i \in 1..Len(data.files) |->
        buildResultItem([file |-> data.files[i].name, path |-> data.files[i].path])]
  \o (IF Len(data.files) = 0 THEN <<MsgRow("empty")>> ELSE << >>)

\* the rows showDirLevel renders for a listing of relPath
ListingRows(relPath, data) ==
  (IF relPath # << >> THEN <<Row("up", << >>, relPath)>> ELSE << >>)
  \o [i \in 1..Len(data.dirs) |-> Row("folder", data.dirs[i], relPath)]
  \o [i \in 1..Len(data.files) |->
        buildResultItem([file |-> data.files[i].name, path |-> data.files[i].path])]
  \o (IF Len(data.dirs) = 0 /\ Len(data.files) = 0 THEN <<MsgRow("empty")>> ELSE << >>)

\* what showDirLevel does with the rows it is about to show, after its await:
\* nothing unless the navigator is active at that moment
ShowAfterAwait(req, rows) ==
  /\ dirFetches' = BagRemove(dirFetches, req)
  /\ IF ~dirSearchState.active
     THEN UNCHANGED <<results, scrollTop, confirms, deletes>>
     ELSE /\ results' = rows
          /\ scrollTop' = Clamp(scrollTop, rows)
          /\ confirms' = Detach(confirms)
          /\ deletes' = Detach(deletes)
  /\ UNCHANGED <<isAdmin, lastRenderedResults, dirSearchState, dirBtnPressed,
                 searches, hPreResults, hPreScroll, hDeleted>>
  /\ alerts' = << >>
  /\ hStep' = ""
  /\ hCalls' = << >>

\* the bodies /api/dir-tree answers with for a path: its listing, or one
\* that does not parse and reads as {} (data.dirs || [], data.files || [])
DirBodies(path) == {Listing(path), [dirs |-> << >>, files |-> << >>]}

\* the answer for req.path arrives with the listing data
DirAnswer(req, data) ==
  /\ BagIn(req, dirFetches)
  /\ ShowAfterAwait(req, ListingRows(req.path, data))

\* the listing for req.path arrives
DirResponse(req) == \E data \in DirBodies(req.path) : DirAnswer(req, data)

\* fetch rejects: the catch branch shows the inline error row
DirReject(req) ==
  /\ BagIn(req, dirFetches)
  /\ ShowAfterAwait(req, ErrorRows)

\* click on the row at position i of the host: a folder or the 'up' row
DirRowClick ==
  /\ BagCardinality(dirFetches) < MaxDirFetches
  /\ \E i \in 1..Len(results) :
       /\ results[i].kind \in {"folder", "up"}
       /\ LET target == IF results[i].kind = "folder"
                        THEN ChildPath(results[i].rel, results[i].name)
                        ELSE ParentPath(results[i].rel)
          IN  /\ dirSearchState' = ShowDirLevelState(dirSearchState, target)
              /\ dirFetches' = ShowDirLevelFetches(dirSearchState, dirFetches, target)
  /\ UNCHANGED <<isAdmin, results, scrollTop, lastRenderedResults, dirBtnPressed,
                 searches, confirms, deletes, hPreResults, hPreScroll, hDeleted>>
  /\ alerts' = << >>
  /\ hStep' = ""
  /\ hCalls' = << >>

\* click on a record row's delete button: openConfirm(...) shows the modal
\* and adds its listeners to the Yes / No / Close buttons; at most `max`
\* confirmations and delete requests are pending
DeleteClickUpTo(max) ==
  /\ isAdmin
  /\ BagCardinality(confirms) + BagCardinality(deletes) < max
  /\ \E i \in 1..Len(results) :
       /\ results[i].kind = "rec"
       /\ confirms' = BagAdd(confirms, [path |-> results[i].name, attached |-> TRUE])
  /\ UNCHANGED <<isAdmin, results, scrollTop, lastRenderedResults, dirSearchState,
                 dirBtnPressed, dirFetches, searches, deletes,
                 hPreResults, hPreScroll, hDeleted>>
  /\ alerts' = << >>
  /\ hStep' = ""
  /\ hCalls' = << >>

DeleteClick == DeleteClickUpTo(MaxDeletes)

\* confirmations that may be pending at once when delete buttons are
\* activated while the confirmation is shown
MaxConfirms == 2

\* faulty variant: the delete handler goes on whatever the answer
SentOnAnswer_Always(ok, pending) == pending

\* the delete requests sent when the pending confirmations resolve with ok:
\* `if (!ok) return;` in the delete handler
SentOnAnswer(ok, pending) == IF ok THEN pending ELSE EmptyBag

\* click on #confirmYes: every listener on the button resolves its promise
\* with true and its handler sends the delete request
ConfirmYes ==
  /\ confirms # EmptyBag
  /\ deletes' = deletes (+) SentOnAnswer(TRUE, confirms)
  /\ confirms' = EmptyBag
  /\ UNCHANGED <<isAdmin, results, scrollTop, lastRenderedResults, dirSearchState,
                 dirBtnPressed, dirFetches, searches, hPreResults, hPreScroll, hDeleted>>
  /\ alerts' = << >>
  /\ hStep' = ""
  /\ hCalls' = << >>

\* click on #confirmNo or #confirmClose: every pending promise resolves false
ConfirmNo ==
  /\ confirms # EmptyBag
  /\ deletes' = deletes (+) SentOnAnswer(FALSE, confirms)
  /\ confirms' = EmptyBag
  /\ UNCHANGED <<isAdmin, results, scrollTop, lastRenderedResults, dirSearchState,
                 dirBtnPressed, dirFetches, searches, hPreResults, hPreScroll, hDeleted>>
  /\ alerts' = << >>
  /\ hStep' = "confirm-no"
  /\ hCalls' = << >>

\* faulty variant: the list is rendered again without its record rows
RemoveRow_DropsRecords(rows, p) == SelectSeq(rows, LAMBDA r : r.kind # "rec")

\* the rows left by row.remove() for the row of path p
RemoveRow(rows, p) ==
  SelectSeq(rows, LAMBDA r : ~(r.kind = "rec" /\ r.name = p))

\* /api/delete-file answers ok: row.remove()
DeleteOk(req) ==
  /\ BagIn(req, deletes)
  /\ LET rest == BagRemove(deletes, req)
         gone(e) == IF e.path = req.path THEN [e EXCEPT !.attached = FALSE] ELSE e
     IN  IF req.attached
         THEN /\ results' = RemoveRow(results, req.path)
              /\ scrollTop' = Clamp(scrollTop, RemoveRow(results, req.path))
              /\ deletes' = MapBag(rest, gone)
              /\ confirms' = MapBag(confirms, gone)
         ELSE /\ deletes' = rest
              /\ UNCHANGED <<results, scrollTop, confirms>>
  /\ hDeleted' = hDeleted \cup {req.path}
  /\ UNCHANGED <<isAdmin, lastRenderedResults, dirSearchState, dirBtnPressed,
                 dirFetches, searches, hPreResults, hPreScroll>>
  /\ alerts' = << >>
  /\ hStep' = "delete-ok"
  /\ hCalls' = << >>

\* the delete request fails (rejects, non-2xx, or ok false): alert, row stays
DeleteFail(req) ==
  /\ BagIn(req, deletes)
  /\ deletes' = BagRemove(deletes, req)
  /\ UNCHANGED <<isAdmin, results, scrollTop, lastRenderedResults, dirSearchState,
                 dirBtnPressed, dirFetches, searches, confirms,
                 hPreResults, hPreScroll, hDeleted>>
  /\ alerts' = <<"delete-failed">>
  /\ hStep' = "delete-fail"
  /\ hCalls' = << >>


(***************************************************************************)
(* Notes modal                                             main.js:1706    *)
(***************************************************************************)
MaxSaves == 1

Backslash == "\\"
LF        == "LF"
\* note texts the backend returns and the user types
TextPool == {<< >>, <<"a">>, <<"b">>, <<"a", Backslash, "n", "b">>}

StartsWith(s, prefix) ==
  Len(prefix) <= Len(s) /\ SubSeq(s, 1, Len(prefix)) = prefix

\* asViewText(raw): raw.replace(/\\r\\n|\\n|\\r/g, '\n')
RECURSIVE asViewText(_)
asViewText(raw) ==
  IF raw = << >> THEN << >>
  ELSE IF StartsWith(raw, <<Backslash, "r", Backslash, "n">>)
       THEN <<LF>> \o asViewText(SubSeq(raw, 5, Len(raw)))
  ELSE IF StartsWith(raw, <<Backslash, "n">>) \/ StartsWith(raw, <<Backslash, "r">>)
       THEN <<LF>> \o asViewText(SubSeq(raw, 3, Len(raw)))
  ELSE <<Head(raw)>> \o asViewText(Tail(raw))

\* note contexts: null, a case triple, or a case-law record
Ctx(kind, id, y, m, c) == [kind |-> kind, id |-> id, year |-> y, month |-> m, caseName |-> c]
NullCtx    == Ctx("null", "", "", "", "")
CaseLawCtx == Ctx("case-law", "7", "", "", "")
CaseCtx(y, m, c) == Ctx("case", "", y, m, c)

\* faulty variant: the dirty check without the test of the modal state
updateDirtyState_NoStateTest(state, editor, original) == editor = original

\* updateDirtyState(): the value it leaves in saveBtn.disabled
updateDirtyState(state, editor, original) ==
  IF state # "edit" THEN TRUE ELSE editor = original

\* setState(state): the value it leaves in editor.value
SetStateEditor(state, raw) == IF state = "edit" THEN raw ELSE asViewText(raw)

\* setState(state) with the given rawContent / originalContent in force
SetState(state, raw, original) ==
  /\ modalState' = state
  /\ editorValue' = SetStateEditor(state, raw)
  /\ saveDisabled' = updateDirtyState(state, SetStateEditor(state, raw), original)

\* the buttons setState leaves visible
SaveBtnShown   == modalState = "edit"
CancelBtnShown == modalState = "edit"
EditBtnShown   == ~(modalState = "edit" \/ modalIntent = "create")

NoteInit ==
  /\ modalHidden = TRUE
  /\ modalState = "view"
  /\ modalIntent = "update"
  /\ rawContent = << >>
  /\ originalContent = << >>
  /\ noteContext = NullCtx
  /\ editorValue = << >>
  /\ saveDisabled = TRUE
  /\ saves = EmptyBag

\* window._openNotesWith(content, intent, context)          main.js:1787
OpenNotesWith(content, intent, context) ==
  /\ noteContext' = context
  /\ modalIntent' = IF intent = "create" THEN "create" ELSE "update"
  /\ rawContent' = content
  /\ originalContent' = content
  /\ SetState(IF intent = "create" THEN "edit" ELSE "view", content, content)
  /\ modalHidden' = FALSE
  /\ alerts' = << >>
  /\ hStep' = "open"
  /\ hCalls' = << >>

\* the case-law note button: its click and the answer to its fetch, taken
\* as one step                                               main.js:1580
OpenCaseLawNote ==
  /\ \E content \in TextPool :
       OpenNotesWith(content, IF content # << >> THEN "update" ELSE "create",
                     CaseLawCtx)
  /\ saves' = Reopen(Touch(saves))

\* #editNotesBtn click
EditClick ==
  /\ ~modalHidden /\ EditBtnShown
  /\ rawContent' = originalContent
  /\ SetState("edit", originalContent, originalContent)
  /\ saves' = Touch(saves)
  /\ UNCHANGED <<modalHidden, modalIntent, originalContent, noteContext>>
  /\ alerts' = << >>
  /\ hStep' = "edit"
  /\ hCalls' = << >>

\* the user changes the text of the editable editor: the input listener
NoteType ==
  /\ ~modalHidden /\ modalState = "edit"
  /\ \E text \in TextPool :
       /\ text # editorValue
       /\ editorValue' = text
       /\ saveDisabled' = updateDirtyState(modalState, text, originalContent)
  /\ saves' = Touch(saves)
  /\ UNCHANGED <<modalHidden, modalState, modalIntent, rawContent, originalContent,
                 noteContext>>
  /\ alerts' = << >>
  /\ hStep' = "type"
  /\ hCalls' = << >>

\* the request saveCurrent() sends, if any
SaveTarget ==
  LET year  == IF noteContext.kind # "null" /\ noteContext.year # ""
               THEN noteContext.year ELSE yearVal
      month == IF noteContext.kind # "null" /\ noteContext.month # ""
               THEN noteContext.month ELSE monthVal
      cname == IF noteContext.kind # "null" /\ noteContext.caseName # ""
               THEN noteContext.caseName ELSE caseVal
  IN  IF noteContext.kind = "case-law"
      THEN IF noteContext.id = "" THEN "none" ELSE "case-law"
      ELSE IF year = "" \/ month = "" \/ cname = "" THEN "none" ELSE "case"

\* #saveNotesBtn click: saveCurrent() up to its await; without a target it
\* alerts and returns
SaveClick ==
  /\ ~modalHidden /\ SaveBtnShown /\ ~saveDisabled
  /\ BagCardinality(saves) < MaxSaves
  /\ saves' = IF SaveTarget = "none" THEN Touch(saves)
              ELSE BagAdd(Touch(saves),
                          [path |-> SaveTarget, intent |-> modalIntent,
                           payload |-> editorValue, touched |-> FALSE,
                           reopened |-> FALSE])
  /\ alerts' = IF SaveTarget # "none" THEN << >>
               ELSE IF noteContext.kind = "case-law" THEN <<"missing-id">>
               ELSE <<"select-first">>
  /\ hStep' = "save"
  /\ hCalls' = << >>
  /\ UNCHANGED <<modalHidden, modalState, modalIntent, rawContent, originalContent,
                 noteContext, editorValue, saveDisabled>>

\* faulty variant: cancel closes the modal whatever the intent
CancelCloses_Always(state, intent) == TRUE

\* handleCancel(): the case in which it closes the modal
CancelCloses(state, intent) == state = "edit" /\ intent = "create"

\* faulty variant: closing keeps the context
ClosedContext_Kept == noteContext

\* closeModal(): hides the modal and leaves this context (the caller sets
\* the state)
ClosedContext == NullCtx

\* #cancelNotesBtn click: handleCancel()
CancelClick ==
  /\ ~modalHidden /\ CancelBtnShown
  /\ rawContent' = originalContent
  /\ SetState("view", originalContent, originalContent)
  /\ IF CancelCloses(modalState, modalIntent)
     THEN /\ modalHidden' = TRUE
          /\ noteContext' = ClosedContext
     ELSE UNCHANGED <<modalHidden, noteContext>>
  /\ saves' = Touch(saves)
  /\ UNCHANGED <<modalIntent, originalContent>>
  /\ alerts' = << >>
  /\ hStep' = "cancel"
  /\ hCalls' = << >>

\* faulty variant: the close control leaves the state as it is
CloseState_Kept(state) == state

\* the close handler: the state it sets after closeModal()
CloseState(state) == "view"

\* #notesClose click
CloseClick ==
  /\ ~modalHidden
  /\ rawContent' = originalContent
  /\ modalHidden' = TRUE
  /\ noteContext' = ClosedContext
  /\ SetState(CloseState(modalState), originalContent, originalContent)
  /\ saves' = Touch(saves)
  /\ UNCHANGED <<modalIntent, originalContent>>
  /\ alerts' = << >>
  /\ hStep' = "close"
  /\ hCalls' = << >>

\* faulty variant: a failed save says nothing
SaveFailAlerts_Silent == << >>

\* the catch branch of saveCurrent(): alert(`Save failed: ...`)
SaveFailAlerts == <<"save-failed">>

\* the save request fails (rejects, non-2xx, or no truthy ok): alert only
SaveFail(req) ==
  /\ BagIn(req, saves)
  /\ saves' = BagRemove(saves, req)
  /\ alerts' = SaveFailAlerts
  /\ hStep' = "save-fail"
  /\ hCalls' = << >>
  /\ UNCHANGED <<modalHidden, modalState, modalIntent, rawContent, originalContent,
                 noteContext, editorValue, saveDisabled>>

\* rawContent = editor.value; originalContent = rawContent
CommitOnSave(editor, raw) == editor

\* what a successful save calls besides the modal's own functions: on the
\* case-law branch the onSaved of the context the modal holds at that moment
\* (none when that context is null, which throws, or has no onSaved); on the
\* case branch window.__refreshNoteButton, set once the form was built
SavedCalls(req, ctx, form) ==
  IF req.path = "case-law"
  THEN IF ctx.kind = "case-law" THEN <<"onSaved">> ELSE << >>
  ELSE IF form THEN <<"refresh">> ELSE << >>

\* the save request succeeds: the part of saveCurrent() after its await that
\* touches the modal.  On the case-law path a null noteContext makes
\* noteContext.onSaved throw after the two assignments and the alert; the
\* catch alerts again.
SaveOkModal(req) ==
  /\ BagIn(req, saves)
  /\ saves' = BagRemove(saves, req)
  /\ rawContent' = CommitOnSave(editorValue, rawContent)
  /\ originalContent' = CommitOnSave(editorValue, rawContent)
  /\ hStep' = "save-ok"
  /\ hCalls' = SavedCalls(req, noteContext, formOpen)
  /\ IF req.path = "case-law" /\ noteContext.kind = "null"
     THEN /\ alerts' = <<"saved">> \o SaveFailAlerts
          /\ UNCHANGED <<modalHidden, modalState, modalIntent, noteContext,
                         editorValue, saveDisabled>>
     ELSE /\ alerts' = IF req.path = "case" /\ req.intent = "create"
                       THEN <<"created">> ELSE <<"saved">>
          /\ modalIntent' = "update"
          /\ SetState("view", CommitOnSave(editorValue, rawContent),
                      CommitOnSave(editorValue, rawContent))
          /\ modalHidden' = TRUE
          /\ noteContext' = ClosedContext

(***************************************************************************)
(* Manage-case lookup                                       main.js:709    *)
(***************************************************************************)
MaxLoads == 2

\* ---- the /api/years, /api/months, /api/cases, /api/note collaborators
Years == {"2023", "2024"}
MonthsOf(y) ==
  CASE y = "2023" -> {"Jan"}
    [] y = "2024" -> {"Mar"}
    [] OTHER      -> {}
CasesOf(y, m) ==
  CASE y = "2023" /\ m = "Jan" -> {"A"}
    [] y = "2024" /\ m = "Mar" -> {"A", "B"}
    [] OTHER                   -> {}
HasNote(y, m, c) ==
  \/ (y = "2023" /\ m = "Jan" /\ c = "A")
  \/ (y = "2024" /\ m = "Mar" /\ c = "B")
NoteContentOf(y, m, c) == IF c = "B" THEN <<"b">> ELSE <<"a">>

Req(kind, y, m, c) == [kind |-> kind, year |-> y, month |-> m, caseName |-> c]

LookupInit ==
  /\ formOpen = FALSE
  /\ yearOpts = {} /\ yearVal = ""
  /\ monthOpts = {} /\ monthVal = "" /\ monthDisabled = TRUE
  /\ caseOpts = {} /\ caseVal = "" /\ caseDisabled = TRUE
  /\ invoiceDisabled = TRUE
  /\ noteVisible = FALSE
  /\ noteWired = FALSE
  /\ loads = EmptyBag
  /\ navigated = FALSE
  /\ hFault = FALSE
  /\ hRecomputed = FALSE

Live == formOpen /\ ~navigated

hasSelection(y, m, c) == y # "" /\ m # "" /\ c # ""

\* faulty variant: the invoice button follows year and month only
InvoiceDisabledFor_NoCase(y, m, c) == ~(y # "" /\ m # "")

\* updateCaseActions(): the value it leaves in invoiceBtn.disabled
InvoiceDisabledFor(y, m, c) == ~hasSelection(y, m, c)

\* updateCaseActions() up to its await, run with the select values y, m, c
\* and the requests `base` already in flight               main.js:904
UpdateCaseActions(y, m, c, base) ==
  /\ invoiceDisabled' = InvoiceDisabledFor(y, m, c)
  /\ hRecomputed' = TRUE
  /\ IF ~hasSelection(y, m, c)
     THEN /\ noteVisible' = FALSE
          /\ noteWired' = FALSE
          /\ loads' = base
     ELSE /\ loads' = BagAdd(base, Req("note", y, m, c))
          /\ UNCHANGED <<noteVisible, noteWired>>

\* the 'Manage Case' card is activated: manageCaseForm() builds the form anew
\* and calls loadYears(). The selects, the invoice button and the note button
\* are new elements; what requests of an earlier activation still do on
\* arrival happens to the elements that were replaced.
ManageOpen ==
  /\ ~navigated
  /\ formOpen' = TRUE
  /\ yearOpts' = {} /\ yearVal' = ""
  /\ monthOpts' = {} /\ monthVal' = "" /\ monthDisabled' = TRUE
  /\ caseOpts' = {} /\ caseVal' = "" /\ caseDisabled' = TRUE
  /\ invoiceDisabled' = TRUE
  /\ noteVisible' = FALSE /\ noteWired' = FALSE
  /\ loads' = SetToBag({Req("years", "", "", "")})
  /\ hFault' = FALSE
  /\ hRecomputed' = FALSE
  /\ UNCHANGED navigated
  /\ alerts' = << >>
  /\ hStep' = "manage"
  /\ hCalls' = << >>

\* a load or note request is lost: fetch rejects
\* (loadYears / loadMonths / loadCases have no catch: nothing else happens)
LoadReject(req) ==
  /\ Live
  /\ BagIn(req, loads) /\ req.kind \in {"years", "months", "cases"}
  /\ loads' = BagRemove(loads, req)
  /\ hFault' = TRUE
  /\ UNCHANGED <<formOpen, yearOpts, yearVal, monthOpts, monthVal, monthDisabled,
                 caseOpts, caseVal, caseDisabled, invoiceDisabled, noteVisible,
                 noteWired, navigated, hRecomputed>>
  /\ alerts' = << >>
  /\ hStep' = "load-reject"
  /\ hCalls' = << >>

\* loadYears() after its await (a body that does not parse reads as no years)
YearsResponse(req) ==
  /\ Live
  /\ BagIn(req, loads) /\ req.kind = "years"
  /\ \E parsed \in BOOLEAN :
       /\ yearOpts' = IF parsed THEN Years ELSE {}
       /\ hFault' = (hFault \/ ~parsed)
  /\ yearVal' = ""
  /\ monthOpts' = {} /\ monthVal' = "" /\ monthDisabled' = TRUE
  /\ caseOpts' = {} /\ caseVal' = "" /\ caseDisabled' = TRUE
  /\ UpdateCaseActions("", "", "", BagRemove(loads, req))
  /\ UNCHANGED <<formOpen, navigated>>
  /\ alerts' = << >>
  /\ hStep' = "years"
  /\ hCalls' = << >>

\* yearSel change
SelectYear ==
  /\ Live
  /\ \E y \in yearOpts \cup {""} :
       /\ y # yearVal
       /\ yearVal' = y
       /\ IF y = ""
          THEN /\ monthOpts' = {} /\ monthVal' = "" /\ monthDisabled' = TRUE
               /\ caseOpts' = {} /\ caseVal' = "" /\ caseDisabled' = TRUE
               /\ UpdateCaseActions("", "", "", loads)
          ELSE /\ BagCardinality(loads) < MaxLoads
               /\ loads' = BagAdd(loads, Req("months", y, "", ""))
               /\ hRecomputed' = FALSE
               /\ UNCHANGED <<monthOpts, monthVal, monthDisabled, caseOpts, caseVal,
                              caseDisabled, invoiceDisabled, noteVisible, noteWired>>
  /\ UNCHANGED <<formOpen, yearOpts, navigated, hFault>>
  /\ alerts' = << >>
  /\ hStep' = "select-year"
  /\ hCalls' = << >>

\* loadMonths(year) after its await
MonthsResponse(req) ==
  /\ Live
  /\ BagIn(req, loads) /\ req.kind = "months"
  /\ \E parsed \in BOOLEAN :
       /\ monthOpts' = IF parsed THEN MonthsOf(req.year) ELSE {}
       /\ hFault' = (hFault \/ ~parsed)
  /\ monthVal' = "" /\ monthDisabled' = FALSE
  /\ caseOpts' = {} /\ caseVal' = "" /\ caseDisabled' = TRUE
  /\ UpdateCaseActions(yearVal, "", "", BagRemove(loads, req))
  /\ UNCHANGED <<formOpen, yearOpts, yearVal, navigated>>
  /\ alerts' = << >>
  /\ hStep' = "months"
  /\ hCalls' = << >>

\* monthSel change
SelectMonth ==
  /\ Live
  /\ ~monthDisabled
  /\ \E m \in monthOpts \cup {""} :
       /\ m # monthVal
       /\ monthVal' = m
       /\ IF yearVal # "" /\ m # ""
          THEN /\ BagCardinality(loads) < MaxLoads
               /\ loads' = BagAdd(loads, Req("cases", yearVal, m, ""))
               /\ hRecomputed' = FALSE
               /\ UNCHANGED <<caseOpts, caseVal, caseDisabled, invoiceDisabled,
                              noteVisible, noteWired>>
          ELSE /\ caseOpts' = {} /\ caseVal' = "" /\ caseDisabled' = TRUE
               /\ UpdateCaseActions(yearVal, m, "", loads)
  /\ UNCHANGED <<formOpen, yearOpts, yearVal, monthOpts, monthDisabled, navigated,
                 hFault>>
  /\ alerts' = << >>
  /\ hStep' = "select-month"
  /\ hCalls' = << >>

\* loadCases(year, month) after its await
CasesResponse(req) ==
  /\ Live
  /\ BagIn(req, loads) /\ req.kind = "cases"
  /\ \E parsed \in BOOLEAN :
       /\ caseOpts' = IF parsed THEN CasesOf(req.year, req.month) ELSE {}
       /\ hFault' = (hFault \/ ~parsed)
  /\ caseVal' = "" /\ caseDisabled' = FALSE
  /\ UpdateCaseActions(yearVal, monthVal, "", BagRemove(loads, req))
  /\ UNCHANGED <<formOpen, yearOpts, yearVal, monthOpts, monthVal, monthDisabled,
                 navigated>>
  /\ alerts' = << >>
  /\ hStep' = "cases"
  /\ hCalls' = << >>

\* caseSel change: updateCaseActions
SelectCase ==
  /\ Live
  /\ ~caseDisabled
  /\ BagCardinality(loads) < MaxLoads
  /\ \E c \in caseOpts \cup {""} :
       /\ c # caseVal
       /\ caseVal' = c
       /\ UpdateCaseActions(yearVal, monthVal, c, loads)
  /\ UNCHANGED <<formOpen, yearOpts, yearVal, monthOpts, monthVal, monthDisabled,
                 caseOpts, caseDisabled, navigated, hFault>>
  /\ alerts' = << >>
  /\ hStep' = "select-case"
  /\ hCalls' = << >>

\* updateCaseActions() after its await of getNoteState(year, month, cname);
\* a failed probe reads as 'no note'
NoteResponse(req) ==
  /\ Live
  /\ BagIn(req, loads) /\ req.kind = "note"
  /\ loads' = BagRemove(loads, req)
  /\ \E failed \in BOOLEAN :
       /\ hFault' = (hFault \/ failed)
       /\ IF ~failed /\ HasNote(req.year, req.month, req.caseName)
          THEN noteVisible' = TRUE /\ noteWired' = TRUE
          ELSE noteVisible' = FALSE /\ noteWired' = FALSE
  /\ UNCHANGED <<formOpen, yearOpts, yearVal, monthOpts, monthVal, monthDisabled,
                 caseOpts, caseVal, caseDisabled, invoiceDisabled, navigated,
                 hRecomputed>>
  /\ alerts' = << >>
  /\ hStep' = "note-state"
  /\ hCalls' = << >>

\* note button click: noteBtn.onclick up to its await
NoteBtnClick ==
  /\ Live
  /\ noteVisible /\ noteWired
  /\ BagCardinality(loads) < MaxLoads
  /\ loads' = BagAdd(loads, Req("open", yearVal, monthVal, caseVal))
  /\ UNCHANGED <<formOpen, yearOpts, yearVal, monthOpts, monthVal, monthDisabled,
                 caseOpts, caseVal, caseDisabled, invoiceDisabled, noteVisible,
                 noteWired, navigated, hFault, hRecomputed>>
  /\ alerts' = << >>
  /\ hStep' = "note-click"
  /\ hCalls' = << >>

\* noteBtn.onclick after its await: the note exists, the modal is opened with
\* a context read from the selects now
NoteOpenFound(req) ==
  /\ Live
  /\ BagIn(req, loads) /\ req.kind = "open"
  /\ HasNote(req.year, req.month, req.caseName)
  /\ loads' = BagRemove(loads, req)
  /\ OpenNotesWith(NoteContentOf(req.year, req.month, req.caseName), "update",
                   CaseCtx(yearVal, monthVal, caseVal))
  /\ saves' = Reopen(saves)
  /\ UNCHANGED <<formOpen, yearOpts, yearVal, monthOpts, monthVal, monthDisabled,
                 caseOpts, caseVal, caseDisabled, invoiceDisabled, noteVisible,
                 noteWired, navigated, hFault, hRecomputed>>

\* noteBtn.onclick after its await: no note (or the probe failed): alert and
\* updateCaseActions()
NoteOpenMissing(req) ==
  /\ Live
  /\ BagIn(req, loads) /\ req.kind = "open"
  /\ \E failed \in BOOLEAN :
       /\ failed \/ ~HasNote(req.year, req.month, req.caseName)
       /\ hFault' = (hFault \/ failed)
  /\ UpdateCaseActions(yearVal, monthVal, caseVal, BagRemove(loads, req))
  /\ UNCHANGED <<formOpen, yearOpts, yearVal, monthOpts, monthVal, monthDisabled,
                 caseOpts, caseVal, caseDisabled, navigated>>
  /\ alerts' = <<"note-missing">>
  /\ hStep' = "note-missing"
  /\ hCalls' = << >>

\* invoice button click: leaves the page for /invoice?year=&month=&case=
InvoiceClick ==
  /\ Live
  /\ ~invoiceDisabled
  /\ hasSelection(yearVal, monthVal, caseVal)
  /\ navigated' = TRUE
  /\ UNCHANGED <<formOpen, yearOpts, yearVal, monthOpts, monthVal, monthDisabled,
                 caseOpts, caseVal, caseDisabled, invoiceDisabled, noteVisible,
                 noteWired, loads, hFault, hRecomputed>>
  /\ alerts' = << >>
  /\ hStep' = "invoice"
  /\ hCalls' = << >>

\* ---- name search: a click on a rendered result          main.js:973
\* the (year, month, case) items the rendered results of a name search carry
NameResults ==
  {[year |-> "2023", month |-> "Jan", caseName |-> "A"],
   [year |-> "2024", month |-> "Mar", caseName |-> "B"]}

NameKinds == {"nameYears", "nameMonths", "nameCases"}

\* no click handler of a name result is waiting for a load
NoNamePending == \A req \in BagToSet(loads) : req.kind \notin NameKinds

\* select.value = v: a value that is no option leaves the select empty
SetValue(v, opts) == IF v \in opts THEN v ELSE ""

\* the click handler up to its first await: loadYears() when the year is no
\* option yet, else yearSel.value = item.year and loadMonths(item.year)
NameClick(item) ==
  /\ Live
  /\ BagCardinality(loads) < MaxLoads
  /\ IF item.year \in yearOpts
     THEN /\ yearVal' = item.year
          /\ loads' = BagAdd(loads, Req("nameMonths", item.year, item.month,
                                        item.caseName))
     ELSE /\ yearVal' = yearVal
          /\ loads' = BagAdd(loads, Req("nameYears", item.year, item.month,
                                        item.caseName))
  /\ hRecomputed' = FALSE
  /\ UNCHANGED <<formOpen, yearOpts, monthOpts, monthVal, monthDisabled, caseOpts,
                 caseVal, caseDisabled, invoiceDisabled, noteVisible, noteWired,
                 navigated, hFault>>
  /\ alerts' = << >>
  /\ hStep' = "name-click"
  /\ hCalls' = << >>

\* the awaited loadYears() answers: its own updates, then the handler goes on
\* with yearSel.value = item.year and loadMonths(item.year)
NameYearsResponse(req) ==
  /\ Live
  /\ BagIn(req, loads) /\ req.kind = "nameYears"
  /\ \E parsed \in BOOLEAN :
       /\ yearOpts' = IF parsed THEN Years ELSE {}
       /\ hFault' = (hFault \/ ~parsed)
  /\ yearVal' = SetValue(req.year, yearOpts')
  /\ monthOpts' = {} /\ monthVal' = "" /\ monthDisabled' = TRUE
  /\ caseOpts' = {} /\ caseVal' = "" /\ caseDisabled' = TRUE
  /\ invoiceDisabled' = InvoiceDisabledFor("", "", "")
  /\ noteVisible' = FALSE /\ noteWired' = FALSE
  /\ hRecomputed' = FALSE
  /\ loads' = BagAdd(BagRemove(loads, req),
                     Req("nameMonths", req.year, req.month, req.caseName))
  /\ UNCHANGED <<formOpen, navigated>>
  /\ alerts' = << >>
  /\ hStep' = "name-years"
  /\ hCalls' = << >>

\* the awaited loadMonths(item.year) answers: its own updates, then
\* monthSel.value = item.month and loadCases(item.year, item.month)
NameMonthsResponse(req) ==
  /\ Live
  /\ BagIn(req, loads) /\ req.kind = "nameMonths"
  /\ \E parsed \in BOOLEAN :
       /\ monthOpts' = IF parsed THEN MonthsOf(req.year) ELSE {}
       /\ hFault' = (hFault \/ ~parsed)
  /\ monthVal' = SetValue(req.month, monthOpts')
  /\ monthDisabled' = FALSE
  /\ caseOpts' = {} /\ caseVal' = "" /\ caseDisabled' = TRUE
  /\ invoiceDisabled' = InvoiceDisabledFor(yearVal, "", "")
  /\ noteVisible' = FALSE /\ noteWired' = FALSE
  /\ hRecomputed' = FALSE
  /\ loads' = BagAdd(BagRemove(loads, req),
                     Req("nameCases", req.year, req.month, req.caseName))
  /\ UNCHANGED <<formOpen, yearOpts, yearVal, navigated>>
  /\ alerts' = << >>
  /\ hStep' = "name-months"
  /\ hCalls' = << >>

\* the awaited loadCases(item.year, item.month) answers: its own updates, then
\* caseSel.value = item.case, the change event (updateCaseActions) and a
\* second updateCaseActions(): two probes of the note when the triple is full
NameCasesResponse(req) ==
  /\ Live
  /\ BagIn(req, loads) /\ req.kind = "nameCases"
  /\ \E parsed \in BOOLEAN :
       /\ caseOpts' = IF parsed THEN CasesOf(req.year, req.month) ELSE {}
       /\ hFault' = (hFault \/ ~parsed)
  /\ caseVal' = SetValue(req.caseName, caseOpts')
  /\ caseDisabled' = FALSE
  /\ invoiceDisabled' = InvoiceDisabledFor(yearVal, monthVal, caseVal')
  /\ hRecomputed' = TRUE
  /\ IF hasSelection(yearVal, monthVal, caseVal')
     THEN /\ loads' = BagAdd(BagAdd(BagRemove(loads, req),
                                    Req("note", yearVal, monthVal, caseVal')),
                             Req("note", yearVal, monthVal, caseVal'))
          /\ UNCHANGED <<noteVisible, noteWired>>
     ELSE /\ loads' = BagRemove(loads, req)
          /\ noteVisible' = FALSE /\ noteWired' = FALSE
  /\ UNCHANGED <<formOpen, yearOpts, yearVal, monthOpts, monthVal, monthDisabled,
                 navigated>>
  /\ alerts' = << >>
  /\ hStep' = "name-cases"
  /\ hCalls' = << >>

\* a load awaited by the click handler is lost: the handler ends there
NameReject(req) ==
  /\ Live
  /\ BagIn(req, loads) /\ req.kind \in NameKinds
  /\ loads' = BagRemove(loads, req)
  /\ hFault' = TRUE
  /\ UNCHANGED <<formOpen, yearOpts, yearVal, monthOpts, monthVal, monthDisabled,
                 caseOpts, caseVal, caseDisabled, invoiceDisabled, noteVisible,
                 noteWired, navigated, hRecomputed>>
  /\ alerts' = << >>
  /\ hStep' = "name-reject"
  /\ hCalls' = << >>

\* the save request succeeds: saveCurrent() after its await; a case-note save
\* ends with window.__refreshNoteButton(), set once the form was built
SaveOk(req) ==
  /\ SaveOkModal(req)
  /\ IF req.path = "case" /\ formOpen
     THEN /\ UpdateCaseActions(yearVal, monthVal, caseVal, loads)
          /\ UNCHANGED <<formOpen, yearOpts, yearVal, monthOpts, monthVal,
                         monthDisabled, caseOpts, caseVal, caseDisabled, navigated,
                         hFault>>
     ELSE UNCHANGED lookupVars

\* a lookup that has settled on the case 2023 / Jan / A, whose note exists
LookupSettled ==
  /\ formOpen = TRUE
  /\ yearOpts = Years /\ yearVal = "2023"
  /\ monthOpts = MonthsOf("2023") /\ monthVal = "Jan" /\ monthDisabled = FALSE
  /\ caseOpts = CasesOf("2023", "Jan") /\ caseVal = "A" /\ caseDisabled = FALSE
  /\ invoiceDisabled = FALSE
  /\ noteVisible = TRUE
  /\ noteWired = TRUE
  /\ loads = EmptyBag
  /\ navigated = FALSE
  /\ hFault = FALSE
  /\ hRecomputed = TRUE

Init == TruncInit /\ YearInit /\ DirInit /\ isAdmin = TRUE /\ NoteInit /\ LookupInit
InitDir  == TruncInit /\ YearInit /\ DirInit /\ NoteInit /\ LookupInit
InitNote == TruncInit /\ YearInit /\ DirInit /\ isAdmin = TRUE /\ NoteInit /\ LookupSettled

NotTrunc == UNCHANGED <<yearVars, dirVars, noteVars, lookupVars, alerts, hStep, hCalls, rCalls>>
NotYear  == UNCHANGED <<truncVars, dirVars, noteVars, lookupVars, alerts, hStep, hCalls, rCalls>>
NotDir   == UNCHANGED <<truncVars, yearVars, noteVars, lookupVars, rCalls>>
NotNote  == UNCHANGED <<truncVars, yearVars, dirVars, lookupVars, rCalls>>
NotLookup == UNCHANGED <<truncVars, yearVars, dirVars, noteVars, rCalls>>
NotApp   == UNCHANGED <<truncVars, yearVars, dirVars, rCalls>>

NextTrunc ==
  \/ TruncChoose /\ NotTrunc
  \/ TruncApply /\ NotTrunc
  \/ TruncApplyAgain /\ NotTrunc

NextYear ==
  \/ YearOpen /\ NotYear
  \/ YearClose /\ NotYear
  \/ YearScroll /\ NotYear
  \/ YearClickItem /\ NotYear
  \/ YearKeydown /\ NotYear
  \/ YearWheel /\ NotYear

NextDir ==
  \/ SearchClick /\ NotDir
  \/ SearchResponse /\ NotDir
  \/ SearchReject /\ NotDir
  \/ UserScroll /\ NotDir
  \/ DirEnter /\ NotDir
  \/ DirExit /\ NotDir
  \/ DirRowClick /\ NotDir
  \/ \E req \in BagToSet(dirFetches) : DirResponse(req) /\ NotDir
  \/ \E req \in BagToSet(dirFetches) : DirReject(req) /\ NotDir
  \/ DeleteClick /\ NotDir
  \/ ConfirmYes /\ NotDir
  \/ ConfirmNo /\ NotDir
  \/ \E req \in BagToSet(deletes) : DeleteOk(req) /\ NotDir
  \/ \E req \in BagToSet(deletes) : DeleteFail(req) /\ NotDir

\* the results surface without clicks on folder rows: searches, entering and
\* leaving directory mode, the listing of the root, and the delete flow
NextDelete ==
  \/ SearchClick /\ NotDir
  \/ SearchResponse /\ NotDir
  \/ SearchReject /\ NotDir
  \/ UserScroll /\ NotDir
  \/ DirEnter /\ NotDir
  \/ DirExit /\ NotDir
  \/ \E req \in BagToSet(dirFetches) : DirResponse(req) /\ NotDir
  \/ \E req \in BagToSet(dirFetches) : DirReject(req) /\ NotDir
  \/ DeleteClick /\ NotDir
  \/ ConfirmYes /\ NotDir
  \/ ConfirmNo /\ NotDir
  \/ \E req \in BagToSet(deletes) : DeleteOk(req) /\ NotDir
  \/ \E req \in BagToSet(deletes) : DeleteFail(req) /\ NotDir

\* search results and their delete flow, with delete buttons activated
\* while a confirmation is shown
NextConfirm ==
  \/ SearchClick /\ NotDir
  \/ SearchResponse /\ NotDir
  \/ DeleteClickUpTo(MaxConfirms) /\ NotDir
  \/ ConfirmYes /\ NotDir
  \/ ConfirmNo /\ NotDir
  \/ \E req \in BagToSet(deletes) : DeleteOk(req) /\ NotDir
  \/ \E req \in BagToSet(deletes) : DeleteFail(req) /\ NotDir

\* renderResults called directly, in and out of directory mode
NotRender == UNCHANGED <<truncVars, yearVars, noteVars, lookupVars>>
NextRender ==
  \/ \E v \in RenderInputs : RenderCall(v) /\ NotRender
  \/ DirEnter /\ NotDir

\* the directory navigator alone: enter, leave, row clicks, answers
NextNav ==
  \/ DirEnter /\ NotDir
  \/ DirExit /\ NotDir
  \/ DirRowClick /\ NotDir
  \/ \E req \in BagToSet(dirFetches) : DirResponse(req) /\ NotDir
  \/ \E req \in BagToSet(dirFetches) : DirReject(req) /\ NotDir

\* the directory navigator together with the searches
NextBrowse ==
  \/ NextNav
  \/ SearchClick /\ NotDir
  \/ SearchResponse /\ NotDir
  \/ SearchReject /\ NotDir

NextLookup ==
  \/ ManageOpen /\ NotLookup
  \/ SelectYear /\ NotLookup
  \/ SelectMonth /\ NotLookup
  \/ SelectCase /\ NotLookup
  \/ \E req \in BagToSet(loads) : YearsResponse(req) /\ NotLookup
  \/ \E req \in BagToSet(loads) : MonthsResponse(req) /\ NotLookup
  \/ \E req \in BagToSet(loads) : CasesResponse(req) /\ NotLookup
  \/ \E req \in BagToSet(loads) : LoadReject(req) /\ NotLookup
  \/ \E req \in BagToSet(loads) : NoteResponse(req) /\ NotLookup
  \/ InvoiceClick /\ NotLookup

\* the lookup with the name search; the selects and the results are left
\* alone while a click handler of a name result is waiting
NextName ==
  \/ ManageOpen /\ NoNamePending /\ NotLookup
  \/ SelectYear /\ NoNamePending /\ NotLookup
  \/ SelectMonth /\ NoNamePending /\ NotLookup
  \/ SelectCase /\ NoNamePending /\ NotLookup
  \/ \E item \in NameResults : NameClick(item) /\ NoNamePending /\ NotLookup
  \/ \E req \in BagToSet(loads) : YearsResponse(req) /\ NotLookup
  \/ \E req \in BagToSet(loads) : MonthsResponse(req) /\ NotLookup
  \/ \E req \in BagToSet(loads) : CasesResponse(req) /\ NotLookup
  \/ \E req \in BagToSet(loads) : NoteResponse(req) /\ NotLookup
  \/ \E req \in BagToSet(loads) : NameYearsResponse(req) /\ NotLookup
  \/ \E req \in BagToSet(loads) : NameMonthsResponse(req) /\ NotLookup
  \/ \E req \in BagToSet(loads) : NameCasesResponse(req) /\ NotLookup
  \/ \E req \in BagToSet(loads) : NameReject(req) /\ NotLookup

NextNote ==
  \/ OpenCaseLawNote /\ NotNote
  \/ NoteBtnClick /\ NotLookup
  \/ \E req \in BagToSet(loads) : NoteOpenFound(req) /\ NotApp
  \/ \E req \in BagToSet(loads) : NoteOpenMissing(req) /\ NotLookup
  \/ \E req \in BagToSet(loads) : NoteResponse(req) /\ NotLookup
  \/ EditClick /\ NotNote
  \/ NoteType /\ NotNote
  \/ SaveClick /\ NotNote
  \/ CancelClick /\ NotNote
  \/ CloseClick /\ NotNote
  \/ \E req \in BagToSet(saves) : SaveOk(req) /\ NotApp
  \/ \E req \in BagToSet(saves) : SaveFail(req) /\ NotNote

\* the notes modal together with the case select of the form behind it
NextEdit ==
  \/ NextNote
  \/ SelectCase /\ NotLookup

SpecTrunc == Init /\ [][NextTrunc]_vars
SpecYear  == Init /\ [][NextYear]_vars
SpecDir   == InitDir /\ [][NextDir]_vars
SpecDelete == InitDir /\ [][NextDelete]_vars
SpecConfirm == InitDir /\ [][NextConfirm]_vars
SpecRender == InitDir /\ [][NextRender]_vars
SpecNav    == InitDir /\ [][NextNav]_vars
SpecBrowse == InitDir /\ [][NextBrowse]_vars
SpecNote  == InitNote /\ [][NextNote]_vars
SpecEdit  == InitNote /\ [][NextEdit]_vars
SpecLookup == Init /\ [][NextLookup]_vars
SpecName   == Init /\ [][NextName]_vars

(***************************************************************************)
(* Claims                                                                  *)
(***************************************************************************)

\* C1: in the year picker, after every event (open, close, item click,
\* scroll, keydown, trigger wheel) the window contains the selection:
\* from <= selected <= to.
C1_SelectedInWindow == from <= selected /\ selected <= to

\* C2: a directory listing (or its failure) that was requested before the
\* user left directory mode is discarded when it arrives: it changes neither
\* the results surface nor the directory state.
C2_StaleDiscarded ==
  [][\A req \in BagToSet(dirFetches) :
       (req.exited /\ (DirResponse(req) \/ DirReject(req)))
         => (results' = results /\ dirSearchState' = dirSearchState)]_vars

\* C10: leaving directory mode deactivates the overlay and shows the last
\* rendered snapshot at the scroll offset captured on entry, or the default
\* placeholder when there is none; in particular entering and leaving before
\* any listing arrived shows exactly the rows and the scroll offset that were
\* there before entry.
C10_ExitRestores ==
  [][(dirSearchState.active /\ DirExit) =>
       /\ ~dirSearchState'.active
       /\ results' = (IF lastRenderedResults.isNull THEN DefaultRows
                      ELSE RenderedRows(lastRenderedResults.list))
       /\ ~lastRenderedResults.isNull =>
            scrollTop' = Clamp(dirSearchState.previousScroll, results')
       /\ results = LoadingRows =>
            (results' = hPreResults /\ scrollTop' = hPreScroll)]_vars

\* C3: in every reachable state of the notes modal the save action is enabled
\* if and only if the state is 'edit' and the editor buffer differs from
\* originalContent (so a keystroke recomputes it and a completed save leaves
\* it disabled).
C3_SaveEnabledIffDirty ==
  (~saveDisabled) <=> (modalState = "edit" /\ editorValue # originalContent)

\* C3 witness: an open modal in edit state whose typed buffer differs from
\* the original, with the save action enabled.
C3_Witness ==
  /\ ~modalHidden /\ modalState = "edit"
  /\ editorValue # originalContent /\ ~saveDisabled

\* C4: once no request is pending (and none has failed), the note button is
\* visible, in 'update' posture, if and only if the selected year / month /
\* case is complete and a note exists for it.
C4_NoteButtonMatchesSelection ==
  (loads = EmptyBag /\ ~hFault) =>
    ((noteVisible /\ noteWired) <=>
       (hasSelection(yearVal, monthVal, caseVal) /\ HasNote(yearVal, monthVal, caseVal)))

\* C5: once every month and case load has completed (none having failed),
\* the month options are those of the selected year and the case options
\* those of the selected year and month.
C5_OptionsMatchSelection ==
  (loads = EmptyBag /\ ~hFault) =>
    /\ monthOpts = MonthsOf(yearVal)
    /\ caseOpts = CasesOf(yearVal, monthVal)

\* C6: month options are offered (populated and enabled) only while a year is
\* selected, case options only while a month is selected.
C6_DownstreamNeedsUpstream ==
  /\ (~monthDisabled /\ monthOpts # {}) => yearVal # ""
  /\ (~caseDisabled /\ caseOpts # {}) => monthVal # ""

\* C7: whenever availability has been recomputed for the current selection,
\* the invoice button is enabled if and only if year, month and case are all
\* non-empty, whatever became of the note-existence query.
C7_InvoiceIffComplete ==
  hRecomputed => ((~invoiceDisabled) <=> hasSelection(yearVal, monthVal, caseVal))

\* C7 witness: a complete selection with the invoice button enabled while the
\* note-existence query for it is still pending.
C7_Witness ==
  /\ hRecomputed /\ ~invoiceDisabled
  /\ hasSelection(yearVal, monthVal, caseVal)
  /\ BagIn(Req("note", yearVal, monthVal, caseVal), loads)

\* C8: for every file name and maximum length, the result of smartTruncate
\* is at most maxLen long and ends with the name's extension.
C8_LengthAndExtension ==
  tPhase \in {"once", "twice"} =>
    /\ Len(tOut) <= tMax
    /\ EndsWith(tOut, ExtOf(tName))

\* C9: smartTruncate is idempotent at a fixed maximum, and a name no longer
\* than the maximum is returned unchanged.
C9_Idempotent ==
  /\ tPhase \in {"once", "twice"} /\ Len(tName) <= tMax => tOut = tName
  /\ tPhase = "twice" => tOut2 = tOut

\* C17: once the panel is rendered, after every scroll or keyboard event the
\* item nodes are exactly the years from..to, each once and in ascending
\* order, so the node count is to - from + 1.
C17_ItemsAreWindow ==
  panelReady =>
    /\ items # << >>
    /\ items[1][1] = from
    /\ items[Len(items)][2] = to
    /\ \A i \in 1..Len(items) :
         /\ items[i][1] <= items[i][2]
         /\ i < Len(items) => items[i + 1][1] = items[i][2] + 1
    /\ NodeCount(items) = to - from + 1

\* C17 witness: a panel grown at both ends, by fragments put before and
\* after the first rendering.
C17_Witness ==
  /\ panelReady /\ Len(items) >= 3
  /\ from < StartYear - CHUNK /\ to > StartYear + CHUNK

\* C18: in every step of the year picker from does not increase and to does
\* not decrease, so the width to - from never shrinks.
C18_WindowOnlyGrows == [][from' <= from /\ to' >= to]_vars

\* C18 witness: a window grown downwards by a key that moved the selection
\* below the first rendering.
C18_Witness ==
  /\ from < StartYear - CHUNK /\ selected < StartYear - CHUNK
  /\ to >= StartYear + CHUNK

\* C19: a scroll event that finds the panel within THRESHOLD px of the top
\* lowers from by exactly CHUNK, leaves to alone, puts the CHUNK new years
\* ahead of the existing items and adds CHUNK * itemHeight to scrollTop; one
\* that finds it within THRESHOLD px of the bottom raises to by exactly CHUNK
\* and leaves from alone.
C19_ScrollGrowth ==
  [][\A s \in ScrollStops :
       YearScrollAt(s) =>
         /\ NearTop(s) =>
              /\ from' = from - CHUNK /\ to' = to
              /\ items' = << <<from - CHUNK, from - 1>> >> \o items
              /\ panelScrollTop' = s + CHUNK * itemHeight
         /\ NearBottom(s, items) =>
              /\ to' = to + CHUNK /\ from' = from
              /\ items' = items \o << <<to + 1, to + CHUNK>> >>]_vars

\* C19 witness: the panel after one growth at the top, the offset moved down
\* by the height of the new items.
C19_Witness ==
  /\ ~panelHidden
  /\ from = StartYear - 2 * CHUNK /\ to = StartYear + CHUNK
  /\ Len(items) = 2
  /\ panelScrollTop >= CHUNK * itemHeight

\* C20: a key that moves the selection to within EdgeMargin of an edge of
\* the window extends the window at that edge by exactly CHUNK items, put
\* before or after the items already rendered.
C20_KeyGrowthIsOneChunk ==
  [][\A key \in Keys \ {"Enter", "Escape"} :
       LET next == KeyTarget(key, hiddenValue)
       IN  YearKey(key) =>
             /\ (from <= next /\ next < from + EdgeMargin) =>
                  /\ from' = from - CHUNK /\ to' = to
                  /\ items' = << <<from - CHUNK, from - 1>> >> \o items
             /\ (to - EdgeMargin < next /\ next <= to) =>
                  /\ to' = to + CHUNK /\ from' = from
                  /\ items' = items \o << <<to + 1, to + CHUNK>> >>]_vars

\* C11: when the save request of a click made in edit state succeeds and the
\* user did nothing between the click and the answer (the request is not
\* 'touched': no click, no typing), then afterwards originalContent is the
\* buffer that was sent, the intent is 'update', the state is 'view', the
\* modal is hidden and save is disabled.
C11_SaveCommits ==
  [][\A req \in BagToSet(saves) :
       (~req.touched /\ SaveOk(req)) =>
         /\ originalContent' = req.payload
         /\ modalIntent' = "update"
         /\ modalState' = "view"
         /\ modalHidden'
         /\ saveDisabled']_vars

\* C12: when a save request fails (it rejects, answers non-2xx, or its body
\* has no truthy ok) an error is surfaced and the modal's state, intent,
\* rawContent, originalContent, context, editor buffer and visibility are
\* what they were.
C12_SaveFailKeepsModal ==
  [][\A req \in BagToSet(saves) :
       SaveFail(req) =>
         /\ alerts' = <<"save-failed">>
         /\ UNCHANGED <<modalState, modalIntent, rawContent, originalContent,
                        noteContext, editorValue, modalHidden>>]_vars

\* C12 witness: a failed save has just been reported and the modal is still
\* open in edit state with its changed buffer, the save button enabled.
C12_Witness ==
  /\ hStep = "save-fail" /\ alerts = <<"save-failed">>
  /\ ~modalHidden /\ modalState = "edit"
  /\ editorValue # originalContent /\ ~saveDisabled

\* C13: Cancel in edit state sends no save request; with intent 'create' it
\* closes the modal, whatever was typed; with intent 'update' it discards
\* the typed changes, returns to 'view' showing the original content, and
\* leaves the modal open.
C13_CancelByIntent ==
  [][(modalState = "edit" /\ CancelClick) =>
       /\ BagCardinality(saves') = BagCardinality(saves)
       /\ modalIntent = "create" => modalHidden'
       /\ modalIntent = "update" =>
            /\ modalState' = "view"
            /\ originalContent' = originalContent
            /\ editorValue' = asViewText(originalContent)
            /\ ~modalHidden']_vars

\* C13 witness: after a cancel the modal is still open in view state on the
\* original content of an existing note; the typed text is gone.
C13_Witness ==
  /\ hStep = "cancel" /\ ~modalHidden
  /\ modalState = "view" /\ modalIntent = "update"
  /\ originalContent # << >>
  /\ editorValue = asViewText(originalContent)
  /\ saves = EmptyBag

\* C14: the close control, from any state of the open modal, leaves
\* originalContent alone and sends no save request, sets the state to 'view',
\* hides the modal and clears the context.
C14_CloseDiscards ==
  [][CloseClick =>
       /\ originalContent' = originalContent
       /\ BagCardinality(saves') = BagCardinality(saves)
       /\ modalState' = "view"
       /\ modalHidden'
       /\ noteContext' = NullCtx]_vars

\* C14 witness: the modal was closed by the close control; it is hidden, in
\* view state, without context, and nothing was sent.
C14_Witness ==
  /\ hStep = "close" /\ modalHidden
  /\ modalState = "view" /\ noteContext = NullCtx
  /\ originalContent # << >> /\ saves = EmptyBag

\* C15: answering the delete confirmation with No (or Close) sends no delete
\* request and leaves every displayed row, the row asked about included,
\* where it is.
C15_DeclinedDeleteDoesNothing ==
  [][ConfirmNo => deletes' = deletes /\ results' = results]_vars

\* C15 witness: a confirmation was just declined; no delete request is in
\* flight and a record row is displayed.
C15_Witness ==
  /\ hStep = "confirm-no"
  /\ confirms = EmptyBag /\ deletes = EmptyBag
  /\ \E i \in 1..Len(results) : results[i].kind = "rec"

\* C16: when a confirmed delete succeeds and its row is still in the list,
\* exactly that row leaves the list and the other rows keep their order and
\* content (the snapshot of the last rendering is not touched either); when
\* the request fails, an error is surfaced and the list is what it was.
C16_DeleteOutcome ==
  [][\A req \in BagToSet(deletes) :
       /\ DeleteOk(req) =>
            /\ lastRenderedResults' = lastRenderedResults
            /\ IF req.attached
               THEN \E i \in 1..Len(results) :
                      /\ results[i].kind = "rec" /\ results[i].name = req.path
                      /\ results' = SubSeq(results, 1, i - 1)
                                      \o SubSeq(results, i + 1, Len(results))
               ELSE results' = results
       /\ DeleteFail(req) =>
            /\ alerts' = <<"delete-failed">>
            /\ results' = results]_vars

\* C16 witness: a delete has just succeeded; the list is one row shorter
\* than the snapshot of its rendering and still shows another record.
C16_Witness ==
  /\ hStep = "delete-ok"
  /\ ~lastRenderedResults.isNull
  /\ Len(results) + 1 = Len(lastRenderedResults.list)
  /\ \E i \in 1..Len(results) : results[i].kind = "rec"

\* C21: a key on the open year panel: ArrowUp / ArrowDown move the selected
\* year by 1, PageUp / PageDown by 10, Home sets it to 9999 and End to 1 (the
\* bound field follows); Enter and Escape close the list and leave selected,
\* the bound field, from and to as they were.
C21_KeyboardContract ==
  [][\A key \in Keys :
       YearKey(key) =>
         /\ key = "ArrowUp"   => selected' = selected + 1
         /\ key = "ArrowDown" => selected' = selected - 1
         /\ key = "PageUp"    => selected' = selected + 10
         /\ key = "PageDown"  => selected' = selected - 10
         /\ key = "Home"      => selected' = 9999
         /\ key = "End"       => selected' = 1
         /\ key \notin {"Enter", "Escape"} => hiddenValue' = selected'
         /\ key \in {"Enter", "Escape"} =>
              /\ panelHidden'
              /\ UNCHANGED <<selected, hiddenValue, from, to>>]_vars

\* C21 witness: the open panel after End, PageUp and ArrowUp.
C21_Witness ==
  /\ ~panelHidden /\ panelReady
  /\ selected = 1 + 10 + 1 /\ hiddenValue = selected

\* C22: once the list is built, after a selection (item click, key, wheel
\* nudge) exactly one rendered item carries the selected marker, the item of
\* the year `selected`.
C22_OneItemMarked == panelReady => marked = {selected}

\* the placeholder and record rows of a sequence of rows
PlaceholderCount(rows) == Cardinality({i \in 1..Len(rows) : rows[i].kind = "noresults"})
RecordCount(rows) == Cardinality({i \in 1..Len(rows) : rows[i].kind = "rec"})
IsEmptyInput(v) == v.isNull \/ Len(v.list) = 0

\* C23: renderResults replaces all rows.  For a null or empty argument the
\* surface holds exactly one placeholder row and no record row; for a
\* non-empty list it holds exactly one row per record, in list order, and no
\* placeholder.  So a call with an empty argument that follows a non-empty
\* and an empty one leaves exactly one placeholder and no record row.
C23_RenderReplacesRows ==
  [][\A v \in RenderInputs :
       RenderCall(v) =>
         /\ IsEmptyInput(v) =>
              /\ Len(results') = 1
              /\ PlaceholderCount(results') = 1 /\ RecordCount(results') = 0
         /\ ~IsEmptyInput(v) =>
              /\ Len(results') = Len(v.list)
              /\ \A i \in 1..Len(v.list) :
                   results'[i].kind = "rec" /\ results'[i].name = v.list[i].path
         /\ ( /\ Len(rCalls) >= 2
              /\ IsEmptyInput(rCalls[Len(rCalls) - 1])
              /\ ~IsEmptyInput(rCalls[Len(rCalls)])
              /\ IsEmptyInput(v) ) =>
              /\ PlaceholderCount(results') = 1 /\ RecordCount(results') = 0
              /\ Len(results') = 1]_vars

\* C23 witness: the surface after rendering an empty list, then two records,
\* then null.
C23_Witness ==
  /\ rCalls = <<ArrayOf(<< >>), ArrayOf(<<RecX, RecY>>), NullList>>
  /\ results = <<MsgRow("noresults")>>

\* C24: after every renderResults call (for a search answer, or for the
\* snapshot on leaving directory mode) the retained snapshot equals the list
\* that was passed, and no other operation changes the snapshot.
C24_SnapshotIsLastRender ==
  [][/\ \A ok \in BOOLEAN, body \in SearchBodies :
          SearchAnswer(ok, body) =>
            lastRenderedResults' = ArrayOf(ResultsOfBody(body))
     /\ (DirExit /\ ~lastRenderedResults.isNull) =>
          lastRenderedResults' = lastRenderedResults
     /\ lastRenderedResults' # lastRenderedResults =>
          \E ok \in BOOLEAN, body \in SearchBodies : SearchAnswer(ok, body)]_vars

\* C24 witness: the snapshot of a rendering of two records is still there
\* while the surface shows a directory listing.
C24_Witness ==
  /\ lastRenderedResults = ArrayOf(<<RecX, RecY>>)
  /\ dirSearchState.active
  /\ \E i \in 1..Len(results) : results[i].kind = "folder"

\* C25: when the fetch of a directory listing fails while directory mode is
\* active, the surface shows the inline error row, active stays true, and
\* currentPath and previousScroll are what they were before that request.
C25_DirFailureKeepsState ==
  [][\A req \in BagToSet(dirFetches) :
       (dirSearchState.active /\ DirReject(req)) =>
         /\ results' = ErrorRows
         /\ dirSearchState'.active
         /\ dirSearchState'.previousScroll = dirSearchState.previousScroll
         /\ dirSearchState'.currentPath = req.hPrevPath]_vars

\* C26: when a search request fails (the fetch rejects, the status is not
\* 2xx, or the body does not parse) an error is surfaced, and the displayed
\* rows and the retained snapshot are what they were.
C26_SearchFailureKeepsResults ==
  [][/\ \A ok \in BOOLEAN, body \in SearchBodies :
          (SearchAnswer(ok, body) /\ (~ok \/ ~body.parses)) =>
            /\ alerts' # << >>
            /\ results' = results
            /\ lastRenderedResults' = lastRenderedResults
     /\ SearchReject =>
          /\ alerts' # << >>
          /\ results' = results
          /\ lastRenderedResults' = lastRenderedResults]_vars

\* the directory names of a path: none for the empty path
Segments(p) == IF p = << >> THEN << >> ELSE Split(p)

\* C27: currentPath is always empty or a slash-joined sequence of non-empty
\* directory names without leading or trailing slash; clicking a folder row
\* makes it the row's path plus exactly one segment, the folder's name, and
\* clicking the 'up' row makes it the row's path without its last segment.
C27_PathShape ==
  /\ [](\A k \in 1..Len(Segments(dirSearchState.currentPath)) :
          /\ Segments(dirSearchState.currentPath)[k] # << >>
          /\ "/" \notin {Segments(dirSearchState.currentPath)[k][j] :
                           j \in 1..Len(Segments(dirSearchState.currentPath)[k])})
  /\ [][DirRowClick =>
          \E i \in 1..Len(results) :
            \/ /\ results[i].kind = "folder"
               /\ Segments(dirSearchState'.currentPath)
                    = Append(Segments(results[i].rel), results[i].name)
            \/ /\ results[i].kind = "up"
               /\ Segments(results[i].rel) # << >>
               /\ Segments(dirSearchState'.currentPath)
                    = SubSeq(Segments(results[i].rel), 1,
                             Len(Segments(results[i].rel)) - 1)]_vars

\* C27 witness: two levels down, then up again by the 'up' row: the path is
\* the first directory while the second level's listing is still shown.
C27_Witness ==
  /\ dirSearchState.active
  /\ dirSearchState.currentPath = DirA
  /\ \E i \in 1..Len(results) : results[i].kind = "up" /\ results[i].rel = DirA \o Slash \o DirB

\* C28: a listing that arrives while the navigator is active is shown as, in
\* this order: an 'up' row iff the requested path is not empty, one folder
\* row per subdirectory, one record row per file, and one '(empty)' row iff
\* there are no subdirectories and no files.
C28_ListingRows ==
  [][\A req \in BagToSet(dirFetches) : \A data \in DirBodies(req.path) :
       (dirSearchState.active /\ DirAnswer(req, data)) =>
         LET u  == IF req.path # << >> THEN 1 ELSE 0
             nd == Len(data.dirs)
             nf == Len(data.files)
             e  == IF nd = 0 /\ nf = 0 THEN 1 ELSE 0
         IN  /\ Len(results') = u + nd + nf + e
             /\ u = 1 => results'[1].kind = "up"
             /\ \A i \in 1..nd :
                  results'[u + i].kind = "folder" /\ results'[u + i].name = data.dirs[i]
             /\ \A i \in 1..nf :
                  /\ results'[u + nd + i].kind = "rec"
                  /\ results'[u + nd + i].name = data.files[i].path
             /\ e = 1 => results'[u + 1].kind = "empty"]_vars

\* C28 witness: the listing of the directory a is shown: the 'up' row, its
\* subdirectory b and its file, and no '(empty)' row.
C28_Witness ==
  /\ dirSearchState.active
  /\ results = <<Row("up", << >>, DirA), Row("folder", DirB, DirA),
                 buildResultItem([file |-> FileF.name, path |-> FileF.path])>>

\* a context that identifies the backing entity: a case-law record id, or a
\* complete case triple
ContextIdentifies(ctx) ==
  \/ ctx.kind = "case-law" /\ ctx.id # ""
  \/ ctx.kind = "case" /\ ctx.year # "" /\ ctx.month # "" /\ ctx.caseName # ""

\* C29: the save action sends a request only when the modal holds a context
\* that identifies the backing entity; with a null context, or one without
\* the case-law id or without a complete case triple, it sends none.
C29_SaveNeedsContext ==
  [][(SaveClick /\ BagCardinality(saves') > BagCardinality(saves))
       => ContextIdentifies(noteContext)]_vars

\* C30: every successful save of a case note calls the refresh of the note
\* button once, every successful save of a case-law note calls the onSaved
\* callback once, and a failed save calls neither.
C30_SaveCallbacks ==
  [][\A req \in BagToSet(saves) :
       /\ SaveOk(req) =>
            /\ req.path = "case" => hCalls' = <<"refresh">>
            /\ req.path = "case-law" => hCalls' = <<"onSaved">>
       /\ SaveFail(req) => hCalls' = << >>]_vars

\* C31: a click on a name result back-fills year, month and case in that
\* order, each after the load before it; when its last step ends, with no
\* user input since the click, the selects hold the result's triple and the
\* availability of invoice and note has been recomputed for it.
C31_NameBackfill ==
  [][\A req \in BagToSet(loads) :
       /\ NameMonthsResponse(req) => (~hFault' => monthVal' = req.month)
       /\ NameCasesResponse(req) =>
            (~hFault' =>
               /\ yearVal' = req.year
               /\ monthVal' = req.month
               /\ caseVal' = req.caseName
               /\ hRecomputed' /\ ~invoiceDisabled'
               /\ BagIn(Req("note", req.year, req.month, req.caseName), loads'))]_vars

\* C32: the modal opened by a click on the note button holds content and a
\* context of one and the same case triple, the one the content was fetched
\* for, whatever happens to the selects while the fetch is pending.
C32_NoteContentMatchesContext ==
  [][\A req \in BagToSet(loads) :
       NoteOpenFound(req) =>
         /\ rawContent' = NoteContentOf(req.year, req.month, req.caseName)
         /\ noteContext'.year = req.year
         /\ noteContext'.month = req.month
         /\ noteContext'.caseName = req.caseName]_vars

\* C33: whatever cancel, close and open did while a save request was pending,
\* its successful answer reports success; it sets originalContent to the
\* content that was sent, and when the modal was opened again after the
\* request was issued it leaves that session's state, content baseline and
\* visibility alone.
C33_SaveAnswerIsolated ==
  [][\A req \in BagToSet(saves) :
       SaveOk(req) =>
         /\ alerts' \in {<<"saved">>, <<"created">>}
         /\ IF req.reopened
            THEN UNCHANGED <<modalState, rawContent, originalContent, modalHidden>>
            ELSE originalContent' = req.payload]_vars

\* C34: in directory mode, once no listing request is pending, the rows shown
\* are those of an answer (a listing or the error row) for currentPath, the
\* path requested last.
C34_LatestListingShown ==
  (dirSearchState.active /\ dirFetches = EmptyBag) =>
    results \in {ListingRows(dirSearchState.currentPath, data) :
                   data \in DirBodies(dirSearchState.currentPath)} \cup {ErrorRows}

\* C35: the note button is visible only while year, month and case are all
\* chosen, also after a note probe answers for a selection that has since
\* been changed or cleared.
C35_NoteVisibleNeedsSelection ==
  noteVisible => hasSelection(yearVal, monthVal, caseVal)

\* C36: a record whose delete request succeeded is not shown on the results
\* surface again, whatever entering and leaving directory mode follows,
\* until renderResults shows a new search result.
C36_DeletedStaysGone ==
  [][(DirEnter \/ DirExit) =>
       \A i \in 1..Len(results') :
         results'[i].kind = "rec" => results'[i].name \notin hDeleted]_vars

\* C37: delete requests are sent only for confirmations that were answered
\* Yes; with two confirmations pending one click on Yes confirms at most one
\* of them and one click on No cancels only its own.
C37_OneAnswerOneConfirmation ==
  [][/\ BagCardinality(deletes') > BagCardinality(deletes) => ConfirmYes
     /\ ConfirmYes =>
          /\ BagCardinality(deletes') = BagCardinality(deletes) + 1
          /\ BagCardinality(confirms') = BagCardinality(confirms) - 1
          /\ \A e \in BagToSet(deletes') :
               BagIn(e, deletes) \/ BagIn(e, confirms)
     /\ ConfirmNo =>
          /\ deletes' = deletes
          /\ BagCardinality(confirms') = BagCardinality(confirms) - 1]_vars

\* C38: when renderResults runs in directory mode (a search answer arrives),
\* directory mode ends (active false, currentPath empty, previousScroll 0,
\* button not pressed) and the list rendered is the new snapshot; a listing
\* answer that was pending then is discarded when it arrives.
C38_RenderEndsDirMode ==
  [][/\ (dirSearchState.active /\ SearchResponse) =>
          /\ dirSearchState' = DirStateOff
          /\ ~dirBtnPressed'
          /\ ~lastRenderedResults'.isNull
          /\ results' = RenderedRows(lastRenderedResults'.list)
     /\ \A req \in BagToSet(dirFetches) :
          (req.rendered /\ (DirResponse(req) \/ DirReject(req)))
            => (results' = results /\ dirSearchState' = dirSearchState)]_vars

\* C39: whenever the notes modal is hidden the editor is not in edit state,
\* the save button is disabled and the note context is null.
C39_HiddenModalIsReset ==
  modalHidden =>
    /\ modalState # "edit"
    /\ saveDisabled
    /\ noteContext = NullCtx

\* C39 witness: the modal is hidden again after a save that was sent from edit
\* state with a context has been answered with success.
C39_Witness ==
  /\ modalHidden /\ hStep = "save-ok" /\ alerts = <<"saved">>
  /\ modalState = "view" /\ saveDisabled /\ noteContext = NullCtx
  /\ originalContent # << >>

\* C40: whenever directory mode is not active, currentPath is empty and
\* previousScroll is 0; and the directory button is in its pressed ('Exit
\* Directory Search') state exactly when directory mode is active.
C40_DirStateConsistent ==
  /\ ~dirSearchState.active =>
       (dirSearchState.currentPath = << >> /\ dirSearchState.previousScroll = 0)
  /\ dirBtnPressed <=> dirSearchState.active

\* C40 witness: directory mode was entered, the folder a was opened, and a
\* search answer has ended the mode while the listing of a was still pending.
C40_Witness ==
  /\ ~dirSearchState.active /\ ~dirBtnPressed
  /\ dirSearchState = DirStateOff
  /\ \E req \in BagToSet(dirFetches) :
       req.path = DirA /\ req.rendered /\ req.hPrevPath = << >>

====
